---- MODULE Spec2Model ----
(***************************************************************************)
(* Drift FM: the playlist engine (internal/radio), the play-report         *)
(* handler (internal/api) and the catalog store (internal/inventory).      *)
(* Requests run as concurrent processes; every lock, store call and        *)
(* in-memory update of a request is a step of its process.                 *)
(***************************************************************************)
EXTENDS Integers, Sequences, FiniteSets, TLC

\* ------------------------------------------------------------------ bounds
NumTracks == 7       \* rows of the tracks table
MaxRequests == 2     \* requests arriving in one run of Spec or SpecConc
MaxCalls == 5        \* registry calls made in one run of SpecEngine
MaxTime == 2         \* wall-clock seconds the run spans, cache lifetimes aside
MaxInvalidations == 1  \* calls of Cache.InvalidateMoods in one run
MaxCacheCalls == 3   \* Get and Set calls made in one run of SpecCache
MaxWindow == 2       \* window sizes 1..MaxWindow of the engine SpecWindow starts with

\* --------------------------------------------------------------- constants
DefaultMaxRecent == 3
\* cache.DefaultTTL, in seconds
DefaultTTL == 300

validEventTypes_WithPause == {"play", "skip", "complete", "pause"}

validEventTypes == {"play", "skip", "complete"}

\* ----------------------------------------------------------------- catalog
TrackIds == 1..NumTracks
MissingId == NumTracks + 1
\* two requests are served at a time, each by its own goroutine
Procs == {1, 2}
ReqMoods == {"focus", "calm"}
\* validMoods: the mood identifiers handleMoods knows
validMoods == {"focus", "calm", "late_night", "energize"}
\* a mood name imported with tracks of its own, which the code does not list
CustomMood == "sleep"
\* mood names in the paths of playlist requests: a known mood with tracks, a known
\* mood without tracks, the imported mood, a name nobody knows
PathMoods == {"focus", "late_night", CustomMood, "unknown"}
\* every mood name a caller may pass
AllMoods == ReqMoods \cup validMoods \cup PathMoods
BodyEventTypes == {"", "play", "skip", "complete", "pause"}
BodyMoods == {"", "calm"}
\* listen_seconds values a request body may carry
BodyListenSeconds == {-1, 0, 1}
\* track IDs that reports name: a focus track, no track
ReportTrackIds == {1, MissingId}

\* The seeded tracks table: DefaultMaxRecent + 1 focus tracks, the rest calm but
\* for one track imported under a mood name of its own; the last row is still
\* pending; every second track has vocals.
Catalog == [id \in TrackIds |->
              [file_path  |-> 100 + id,
               mood       |-> IF id <= DefaultMaxRecent + 1 THEN "focus"
                              ELSE IF id = NumTracks - 1 THEN CustomMood ELSE "calm",
               has_vocals |-> (id % 2 = 0),
               status     |-> IF id = NumTracks THEN "pending" ELSE "approved"]]

Paths == {Catalog[id].file_path : id \in TrackIds}
NoStat == [play_count |-> 0, last_played_at |-> 0]

\* ------------------------------------------------------------ pure helpers
Range(s) == {s[i] : i \in 1..Len(s)}

\* every ordering of a finite set, as sequences without repetition
Orderings(S) == {s \in [1..Cardinality(S) -> S] : \A i, j \in 1..Cardinality(S) : s[i] = s[j] => i = j}

\* the timestamp is left out of the ORDER BY
OrderedBefore_CountOnly(a, b) == a.play_count <= b.play_count

\* ORDER BY COALESCE(ps.play_count, 0) ASC, ps.last_played_at ASC NULLS FIRST
\* (a missing play_stats row reads as count 0 and a NULL timestamp, here 0)
OrderedBefore(a, b) ==
    \/ a.play_count < b.play_count
    \/ a.play_count = b.play_count /\ a.last_played_at <= b.last_played_at

\* Repository.GetByMood: the approved tracks of the mood (instrumental ones only on
\* request), in every order the ORDER BY allows: rows with equal keys come in an
\* order SQL leaves open.
GetByMood(stats, mood, instrumentalOnly) ==
    LET rows == {id \in TrackIds : /\ Catalog[id].mood = mood
                                   /\ Catalog[id].status = "approved"
                                   /\ (instrumentalOnly => ~Catalog[id].has_vocals)}
        key(id) == stats[Catalog[id].file_path]
    IN  {s \in Orderings(rows) : \A i, j \in 1..Len(s) : i < j => OrderedBefore(key(s[i]), key(s[j]))}

\* Repository.GetByID: the track's id, or 0 for no row (nil, nil)
GetByID(id) == IF id \in TrackIds THEN id ELSE 0

\* UpdatePlayStatsTx: rows affected by INSERT ... SELECT ... FROM tracks WHERE id = ?
RowsAffected(id) == IF id \in TrackIds THEN 1 ELSE 0

\* the row is replaced instead of incremented
UpsertPlayStats_ResetsCount(stats, id, t) ==
    LET path == Catalog[id].file_path
    IN  [stats EXCEPT ![path] = [play_count |-> 1, last_played_at |-> t]]

\* UpdatePlayStatsTx: the upsert on the track's file path
UpsertPlayStats(stats, id, t) ==
    LET path == Catalog[id].file_path
    IN  [stats EXCEPT ![path] = [play_count |-> stats[path].play_count + 1, last_played_at |-> t]]

\* Fisher-Yates over positions i = Len(s) down to 2; js[i] is the generator's
\* draw for position i (rng.Intn(i+1) of the 0-based loop), 1 <= js[i] <= i.
Swap(s, i, j) == [s EXCEPT ![i] = s[j], ![j] = s[i]]

RECURSIVE FisherYates(_, _, _)
FisherYates(s, i, js) == IF i <= 1 THEN s ELSE FisherYates(Swap(s, i, js[i]), i - 1, js)

RngDraws(n) == {js \in [1..n -> 1..n] : \A i \in 1..n : js[i] <= i}

\* shuffleWithRecencyLocked after recentSet is built: partition, shuffle the
\* non-recent part, rebuild non-recent first and recent last
Partition_NoPartition(tracks, recentSet, js) == FisherYates(tracks, Len(tracks), js)

Partition_DropRecent(tracks, recentSet, js) ==
    LET nonRecent == SelectSeq(tracks, LAMBDA id : id \notin recentSet)
    IN  FisherYates(nonRecent, Len(nonRecent), js)

\* the recent part is put in front
Partition_RecentFirst(tracks, recentSet, js) ==
    LET nonRecent == SelectSeq(tracks, LAMBDA id : id \notin recentSet)
        recent    == SelectSeq(tracks, LAMBDA id : id \in recentSet)
    IN  recent \o FisherYates(nonRecent, Len(nonRecent), js)

\* the recent part is shuffled as well
Partition_ShufflesRecent(tracks, recentSet, js) ==
    LET nonRecent == SelectSeq(tracks, LAMBDA id : id \notin recentSet)
        recent    == SelectSeq(tracks, LAMBDA id : id \in recentSet)
    IN  FisherYates(nonRecent, Len(nonRecent), js) \o FisherYates(recent, Len(recent), js)

Partition(tracks, recentSet, js) ==
    LET nonRecent == SelectSeq(tracks, LAMBDA id : id \notin recentSet)
        recent    == SelectSeq(tracks, LAMBDA id : id \in recentSet)
    IN  FisherYates(nonRecent, Len(nonRecent), js) \o recent

\* Radio.RecordPlay's body: no-op for an ID already present, else append and
\* trim the front when the list exceeds maxRecent
RecordPlayWindow_MoveToBack(recentlyPlayed, trackID, maxRecent) ==
    LET kept == SelectSeq(recentlyPlayed, LAMBDA id : id # trackID)
        added == Append(kept, trackID)
    IN  IF Len(added) > maxRecent THEN Tail(added) ELSE added

RecordPlayWindow_TrimBack(recentlyPlayed, trackID, maxRecent) ==
    IF trackID \in Range(recentlyPlayed) THEN recentlyPlayed
    ELSE IF Len(recentlyPlayed) >= maxRecent THEN recentlyPlayed
    ELSE Append(recentlyPlayed, trackID)

\* the list is never trimmed
RecordPlayWindow_Untrimmed(recentlyPlayed, trackID, maxRecent) ==
    IF trackID \in Range(recentlyPlayed) THEN recentlyPlayed
    ELSE Append(recentlyPlayed, trackID)

RecordPlayWindow(recentlyPlayed, trackID, maxRecent) ==
    IF trackID \in Range(recentlyPlayed) THEN recentlyPlayed
    ELSE LET added == Append(recentlyPlayed, trackID)
         IN  IF Len(added) > maxRecent THEN Tail(added) ELSE added

\* ------------------------------------------------------- cache (cache.go)
\* A key is kept as the pieces it is formatted from, so that a prefix test
\* reads the first piece.
KeyMoodsList == <<"moods:list">>

\* fmt.Sprintf("playlist:%s", mood)
PlaylistKey(mood) == <<"playlist:", mood>>

\* one key per mood, whatever the flag
CacheKeyFor_IgnoresFlag(mood, instrumentalOnly) == PlaylistKey(mood)

\* getPlaylist's cacheKey: PlaylistKey(mood), plus ":instrumental" on request
CacheKeyFor(mood, instrumentalOnly) ==
    IF instrumentalOnly THEN Append(PlaylistKey(mood), ":instrumental") ELSE PlaylistKey(mood)

\* a key outside the mood namespace, as a caller of the generic store may use
OtherKey == <<"other-key">>

\* values a direct caller stores
RawValues == {<<1>>, <<2>>}

\* the keys the callers of this model use
CacheKeys == {KeyMoodsList, OtherKey} \cup {CacheKeyFor(m, i) : m \in AllMoods, i \in BOOLEAN}

\* the keys direct callers use: the mood list, a playlist slot, and a key outside
\* the mood namespace
RawKeys == {KeyMoodsList, CacheKeyFor("calm", TRUE), OtherKey}

\* strings.HasPrefix(k, prefix), for a prefix that is one piece
HasPrefix(k, prefix) == Len(k) >= 1 /\ k[1] = prefix

\* ------------------------------------------------------------------ audio paths
\* a file path is a string, kept as the sequence of its characters
MaxPathLen == 5
PathChars == {"/", ".", "a"}
FilePaths == UNION {[1..n -> PathChars] : n \in 0..MaxPathLen}

\* NewResolver("audio").BasePath
BasePath == <<"/", "a", "u", "d", "i", "o">>

\* the elements of a path: the pieces between its slashes
RECURSIVE Elements(_)
Elements(s) ==
    IF \A i \in 1..Len(s) : s[i] # "/" THEN <<s>>
    ELSE LET k == CHOOSE i \in 1..Len(s) : s[i] = "/" /\ \A j \in 1..(i - 1) : s[j] # "/"
         IN  <<SubSeq(s, 1, k - 1)>> \o Elements(SubSeq(s, k + 1, Len(s)))

RECURSIVE Join(_)
Join(elems) ==
    IF elems = <<>> THEN <<>>
    ELSE IF Len(elems) = 1 THEN elems[1]
    ELSE elems[1] \o <<"/">> \o Join(Tail(elems))

DotDot == <<".", ".">>

\* path.Clean's pass over the elements: empty and "." elements are dropped, a
\* ".." removes the element before it, is dropped at the root, and is kept at
\* the front of a relative path
RECURSIVE CleanElements(_, _, _)
CleanElements(elems, out, rooted) ==
    IF elems = <<>> THEN out
    ELSE LET e == Head(elems)
             rest == Tail(elems)
         IN  IF e = <<>> \/ e = <<".">> THEN CleanElements(rest, out, rooted)
             ELSE IF e = DotDot
             THEN IF out # <<>> /\ out[Len(out)] # DotDot
                  THEN CleanElements(rest, SubSeq(out, 1, Len(out) - 1), rooted)
                  ELSE IF rooted THEN CleanElements(rest, out, rooted)
                  ELSE CleanElements(rest, Append(out, e), rooted)
             ELSE CleanElements(rest, Append(out, e), rooted)

\* path.Clean
Clean(s) ==
    LET rooted == Len(s) >= 1 /\ s[1] = "/"
        out == CleanElements(Elements(s), <<>>, rooted)
    IN  IF rooted THEN <<"/">> \o Join(out)
        ELSE IF out = <<>> THEN <<".">>
        ELSE Join(out)

\* strings.HasPrefix on character strings
StringHasPrefix(s, prefix) ==
    Len(s) >= Len(prefix) /\ SubSeq(s, 1, Len(prefix)) = prefix

\* strings.TrimPrefix
TrimPrefix(s, prefix) ==
    IF StringHasPrefix(s, prefix) THEN SubSeq(s, Len(prefix) + 1, Len(s)) ELSE s

\* the loop of sanitizePath
RECURSIVE TrimParents(_)
TrimParents(s) ==
    IF StringHasPrefix(s, <<".", ".", "/">>)
    THEN TrimParents(TrimPrefix(s, <<".", ".", "/">>))
    ELSE s

sanitizePath(filePath) == TrimParents(TrimPrefix(Clean(filePath), <<"/">>))

\* LocalResolver.ResolveURL
ResolveURL(filePath) == BasePath \o <<"/">> \o sanitizePath(filePath)

\* a key with no entry in the map; epoch only records how many InvalidateMoods
\* calls had returned when the value was computed, the code does not keep it
NoEntry == [present |-> FALSE, value |-> <<>>, expiresAt |-> 0, epoch |-> 0]

\* time.Now().After(e.expiresAt)
Expired_Never(e, t) == FALSE

Expired(e, t) == t > e.expiresAt

\* a cache that never answers
GetResult_AlwaysMiss(e, t) == [found |-> FALSE, value |-> <<>>]

\* Cache.Get's answer for the entry it read under the read lock, at clock t
GetResult(e, t) ==
    IF ~e.present \/ Expired(e, t)
    THEN [found |-> FALSE, value |-> <<>>]
    ELSE [found |-> TRUE, value |-> e.value]

\* Cache.Set's write: the value with expiry now + DefaultTTL
SetItem(its, key, value, t, epoch) ==
    [its EXCEPT ![key] = [present |-> TRUE, value |-> value, expiresAt |-> t + DefaultTTL,
                          epoch |-> epoch]]

\* Cache.InvalidateMoods' deletes: the mood list and every key under "playlist:"
InvalidateItems_PlainKeysOnly(its) ==
    [k \in DOMAIN its |-> IF k = KeyMoodsList \/ k \in {PlaylistKey(m) : m \in ReqMoods}
                          THEN NoEntry ELSE its[k]]

InvalidateItems(its) ==
    [k \in DOMAIN its |-> IF k = KeyMoodsList \/ HasPrefix(k, "playlist:")
                          THEN NoEntry ELSE its[k]]

\* evictExpired's deletes, for the clock value t it read before taking the lock
EvictExpired(its, t) ==
    [k \in DOMAIN its |-> IF its[k].present /\ t > its[k].expiresAt THEN NoEntry ELSE its[k]]

\* Repository.GetMoodStats: track count per mood over approved tracks, ORDER BY mood
MoodsByName == <<"calm", "focus", "sleep">>

GetMoodStats ==
    LET count(m) == Cardinality({id \in TrackIds : Catalog[id].mood = m
                                                   /\ Catalog[id].status = "approved"})
        listed == SelectSeq(MoodsByName, LAMBDA m : count(m) > 0)
    IN  [i \in 1..Len(listed) |-> [mood |-> listed[i], track_count |-> count(listed[i])]]

\* ------------------------------------------------------------------- state
VARIABLES
    playStats,     \* play_stats table: file_path -> [play_count, last_played_at]
    listenEvents,  \* listen_events table, in insertion order
    txOwner,       \* the request whose sql.Tx holds the pool's only connection, or 0
    txStats,       \* play_stats as the open transaction sees it
    txEvents,      \* listen_events as the open transaction sees it
    now,           \* the wall clock, in seconds
    radios,        \* Manager.radios: mood -> index into engines, 0 when absent
    engines,       \* every Radio ever made by NewRadio: mood, recentlyPlayed, mu
    mgrWriter,     \* holder of Manager.mu's write lock, or 0
    mgrReaders,    \* holders of Manager.mu's read lock
    plays,         \* the process-wide plays counter of the metrics package
    pc,            \* each request's position
    loc,           \* each request's locals
    started,       \* requests started so far
    items,         \* Cache.items: key -> entry
    hits,          \* Cache.hits
    misses,        \* Cache.misses
    invalidations, \* calls of Cache.InvalidateMoods that have returned
    sweepNow       \* the clock value evictExpired read, -1 when no sweep is running

storeVars == <<playStats, listenEvents, txOwner, txStats, txEvents>>
managerVars == <<radios, mgrWriter, mgrReaders>>
cacheVars == <<items, hits, misses, invalidations, sweepNow>>
vars == <<playStats, listenEvents, txOwner, txStats, txEvents, now, radios, engines,
          mgrWriter, mgrReaders, plays, pc, loc, started,
          items, hits, misses, invalidations, sweepNow>>

\* a request's locals before it starts; logged is the error line the request wrote;
\* isNil tells that the tracks slice in hand is Go's nil slice;
\* committed, recordedAtRead, statsAtBegin, eventsAtBegin, startEpoch, readEpoch,
\* servedEpoch, statCalls, eventCalls, form and bodyTrackID only record what the request saw,
\* did or was sent, the code does not keep them
Blank == [kind |-> "none", mood |-> "", inst |-> FALSE, trackID |-> 0,
          evtType |-> "", evtMood |-> "", track |-> 0, radio |-> 0,
          tracks |-> <<>>, recentSet |-> {}, result |-> <<>>, status |-> 0,
          ret |-> "", logged |-> "", committed |-> FALSE, recordedAtRead |-> 0,
          statsAtBegin |-> <<>>, eventsAtBegin |-> <<>>,
          key |-> <<>>, entry |-> NoEntry, hit |-> FALSE, value |-> <<>>,
          startEpoch |-> 0, readEpoch |-> 0, servedEpoch |-> 0,
          secs |-> 0, statCalls |-> 0, eventCalls |-> 0, form |-> "", isNil |-> FALSE,
          filePath |-> <<>>, url |-> <<>>, evtTrackID |-> 0, bodyTrackID |-> 0]

\* NewRadio
NewRadio(mood) == [mood |-> mood, recentlyPlayed |-> <<>>, maxRecent |-> DefaultMaxRecent,
                   mu |-> 0, log |-> <<>>]

Init ==
    /\ playStats = [p \in Paths |-> NoStat]
    /\ listenEvents = <<>>
    /\ txOwner = 0
    /\ txStats = [p \in Paths |-> NoStat]
    /\ txEvents = <<>>
    /\ now = 1
    /\ radios = [m \in AllMoods |-> 0]
    /\ engines = <<>>
    /\ mgrWriter = 0
    /\ mgrReaders = {}
    /\ plays = 0
    /\ pc = [p \in Procs |-> "idle"]
    /\ loc = [p \in Procs |-> Blank]
    /\ started = 0
    /\ items = [k \in CacheKeys |-> NoEntry]
    /\ hits = 0
    /\ misses = 0
    /\ invalidations = 0
    /\ sweepNow = -1

\* play_stats rows a track may have when the server starts: none, or a count
\* with the time of the last play
SeedStats == {NoStat} \cup [play_count : {1, 2}, last_played_at : {1, 2}]

\* the play_stats tables the server may start on: the focus tracks were played
\* before, in any way
SeedTables ==
    {t \in [Paths -> SeedStats] :
        \A id \in TrackIds : Catalog[id].mood # "focus" => t[Catalog[id].file_path] = NoStat}

\* the state after construction on a database that has been in use
InitStore ==
    /\ playStats \in SeedTables
    /\ txStats = playStats
    /\ listenEvents = <<>>
    /\ txOwner = 0
    /\ txEvents = <<>>
    /\ now = MaxTime
    /\ radios = [m \in AllMoods |-> 0]
    /\ engines = <<>>
    /\ mgrWriter = 0
    /\ mgrReaders = {}
    /\ plays = 0
    /\ pc = [p \in Procs |-> "idle"]
    /\ loc = [p \in Procs |-> Blank]
    /\ started = 0
    /\ items = [k \in CacheKeys |-> NoEntry]
    /\ hits = 0
    /\ misses = 0
    /\ invalidations = 0
    /\ sweepNow = -1

\* a Radio built with a window size of its own, as the package's tests build one
RadioWithWindow(mood, maxRecent) == [NewRadio(mood) EXCEPT !.maxRecent = maxRecent]

\* the registry holds one engine, for focus, built with some window size
InitWindow ==
    /\ playStats = [p \in Paths |-> NoStat]
    /\ listenEvents = <<>>
    /\ txOwner = 0
    /\ txStats = [p \in Paths |-> NoStat]
    /\ txEvents = <<>>
    /\ now = 1
    /\ \E n \in 1..MaxWindow : engines = <<RadioWithWindow("focus", n)>>
    /\ radios = [m \in AllMoods |-> IF m = "focus" THEN 1 ELSE 0]
    /\ mgrWriter = 0
    /\ mgrReaders = {}
    /\ plays = 0
    /\ pc = [p \in Procs |-> "idle"]
    /\ loc = [p \in Procs |-> Blank]
    /\ started = 0
    /\ items = [k \in CacheKeys |-> NoEntry]
    /\ hits = 0
    /\ misses = 0
    /\ invalidations = 0
    /\ sweepNow = -1

\* a caller holding any file path, about to resolve it
InitResolver ==
    /\ playStats = [p \in Paths |-> NoStat]
    /\ listenEvents = <<>>
    /\ txOwner = 0
    /\ txStats = [p \in Paths |-> NoStat]
    /\ txEvents = <<>>
    /\ now = 1
    /\ radios = [m \in AllMoods |-> 0]
    /\ engines = <<>>
    /\ mgrWriter = 0
    /\ mgrReaders = {}
    /\ plays = 0
    /\ pc = [p \in Procs |-> IF p = 1 THEN "resolve" ELSE "idle"]
    /\ \E f \in FilePaths :
         loc = [p \in Procs |-> IF p = 1 THEN [Blank EXCEPT !.kind = "resolve", !.filePath = f]
                                ELSE Blank]
    /\ started = 0
    /\ items = [k \in CacheKeys |-> NoEntry]
    /\ hits = 0
    /\ misses = 0
    /\ invalidations = 0
    /\ sweepNow = -1

Goto(p, label) == pc' = [pc EXCEPT ![p] = label]

\* the clock moves on; two store writes may fall in the same second
Tick ==
    /\ now < MaxTime
    /\ now' = now + 1
    /\ UNCHANGED <<cacheVars, storeVars, managerVars, engines, plays, pc, loc, started>>

\* ------------------------------------------------ Manager.GetRadio (manager.go)
\* m.mu.RLock()
GR_RLock(p) ==
    /\ pc[p] = "gr_rlock"
    /\ mgrWriter = 0
    /\ mgrReaders' = mgrReaders \cup {p}
    /\ Goto(p, "gr_read")
    /\ UNCHANGED <<cacheVars, storeVars, now, radios, engines, mgrWriter, plays, loc, started>>

\* the read lock is not given back after the lookup
GR_Read_KeepsRLock(p) ==
    /\ pc[p] = "gr_read"
    /\ UNCHANGED mgrReaders
    /\ IF radios[loc[p].mood] # 0
       THEN /\ loc' = [loc EXCEPT ![p].radio = radios[loc[p].mood]]
            /\ Goto(p, loc[p].ret)
       ELSE /\ Goto(p, "gr_lock")
            /\ UNCHANGED loc
    /\ UNCHANGED <<cacheVars, storeVars, now, radios, engines, mgrWriter, plays, started>>

\* radio, exists := m.radios[mood]; m.mu.RUnlock(); if exists { return radio }
GR_Read(p) ==
    /\ pc[p] = "gr_read"
    /\ mgrReaders' = mgrReaders \ {p}
    /\ IF radios[loc[p].mood] # 0
       THEN /\ loc' = [loc EXCEPT ![p].radio = radios[loc[p].mood]]
            /\ Goto(p, loc[p].ret)
       ELSE /\ Goto(p, "gr_lock")
            /\ UNCHANGED loc
    /\ UNCHANGED <<cacheVars, storeVars, now, radios, engines, mgrWriter, plays, started>>

\* m.mu.Lock()
GR_Lock(p) ==
    /\ pc[p] = "gr_lock"
    /\ mgrWriter = 0
    /\ mgrReaders = {}
    /\ mgrWriter' = p
    /\ Goto(p, "gr_create")
    /\ UNCHANGED <<cacheVars, storeVars, now, radios, engines, mgrReaders, plays, loc, started>>

\* the double-check under the write lock: the radio already in the map, or 0
DoubleCheck_Skipped(map, mood) == 0

DoubleCheck(map, mood) == map[mood]

\* double-check, NewRadio, insert; the deferred m.mu.Unlock() runs on return
GR_Create(p) ==
    /\ pc[p] = "gr_create"
    /\ mgrWriter' = 0
    /\ IF DoubleCheck(radios, loc[p].mood) # 0
       THEN /\ loc' = [loc EXCEPT ![p].radio = radios[loc[p].mood]]
            /\ UNCHANGED <<radios, engines>>
       ELSE /\ engines' = Append(engines, NewRadio(loc[p].mood))
            /\ radios' = [radios EXCEPT ![loc[p].mood] = Len(engines) + 1]
            /\ loc' = [loc EXCEPT ![p].radio = Len(engines) + 1]
    /\ Goto(p, loc[p].ret)
    /\ UNCHANGED <<cacheVars, storeVars, now, mgrReaders, plays, started>>

\* -------------------------------------------------------- Radio (radio.go)
\* sync.Mutex: Lock() returns only when nobody holds the mutex
MutexFree_Always(mu) == TRUE

MutexFree(mu) == mu = 0

\* a store call outside a transaction needs the pool's only connection
ConnFree == txOwner = 0

\* a mood without eligible tracks is an error
GP_Query_EmptyIsError(p) ==
    /\ pc[p] = "gp_query"
    /\ ConnFree
    /\ \/ /\ loc' = [loc EXCEPT ![p].status = 500, ![p].logged = "failed to query tracks"]
          /\ Goto(p, "done")
       \/ \E ts \in GetByMood(playStats, engines[loc[p].radio].mood, loc[p].inst) :
            IF Len(ts) = 0
            THEN /\ loc' = [loc EXCEPT ![p].status = 500, ![p].logged = "no tracks"]
                 /\ Goto(p, "done")
            ELSE /\ loc' = [loc EXCEPT ![p].tracks = ts,
                                       ![p].recordedAtRead = Len(engines[loc[p].radio].log),
                                       ![p].readEpoch = invalidations]
                 /\ Goto(p, "gp_lock")
    /\ UNCHANGED <<cacheVars, storeVars, now, managerVars, engines, plays, started>>

\* tracks, err := r.repo.GetByMood(r.mood, instrumentalOnly); the empty list, a
\* slice nothing was appended to, is returned as it is, and the handler goes on
\* with it; otherwise the list is copied for the shuffle
GP_Query(p) ==
    /\ pc[p] = "gp_query"
    /\ ConnFree
    /\ \/ /\ loc' = [loc EXCEPT ![p].status = 500, ![p].logged = "failed to query tracks"]
          /\ Goto(p, "done")
       \/ \E ts \in GetByMood(playStats, engines[loc[p].radio].mood, loc[p].inst) :
            IF Len(ts) = 0
            THEN /\ loc' = [loc EXCEPT ![p].status = 200, ![p].result = ts, ![p].isNil = TRUE,
                                       ![p].readEpoch = invalidations]
                 /\ Goto(p, IF loc[p].kind = "serve" THEN "h_set" ELSE "done")
            ELSE /\ loc' = [loc EXCEPT ![p].tracks = ts,
                                       ![p].recordedAtRead = Len(engines[loc[p].radio].log),
                                       ![p].readEpoch = invalidations]
                 /\ Goto(p, "gp_lock")
    /\ UNCHANGED <<cacheVars, storeVars, now, managerVars, engines, plays, started>>

\* r.mu.Lock()
GP_Lock(p) ==
    /\ pc[p] = "gp_lock"
    /\ MutexFree(engines[loc[p].radio].mu)
    /\ engines' = [engines EXCEPT ![loc[p].radio].mu = p]
    /\ Goto(p, "gp_recent")
    /\ UNCHANGED <<cacheVars, storeVars, now, managerVars, plays, loc, started>>

\* shuffleWithRecencyLocked, first loop: recentSet from r.recentlyPlayed
GP_RecentSet(p) ==
    /\ pc[p] = "gp_recent"
    /\ loc' = [loc EXCEPT ![p].recentSet = Range(engines[loc[p].radio].recentlyPlayed)]
    /\ Goto(p, "gp_partition")
    /\ UNCHANGED <<cacheVars, storeVars, now, managerVars, engines, plays, started>>

\* shuffleWithRecencyLocked, the rest; r.mu.Unlock(); return shuffled, nil (the
\* locals other than the returned slice are dead from here on); the handler goes
\* on to cache the playlist, a direct caller has its answer
GP_Partition(p) ==
    /\ pc[p] = "gp_partition"
    /\ \E js \in RngDraws(Len(loc[p].tracks)) :
         loc' = [loc EXCEPT ![p].result = Partition(loc[p].tracks, loc[p].recentSet, js),
                            ![p].status = 200, ![p].tracks = <<>>, ![p].recentSet = {},
                            ![p].recordedAtRead = 0]
    /\ engines' = [engines EXCEPT ![loc[p].radio].mu = 0]
    /\ Goto(p, IF loc[p].kind = "serve" THEN "h_set" ELSE "done")
    /\ UNCHANGED <<cacheVars, storeVars, now, managerVars, plays, started>>

\* Radio.RecordPlay: r.mu.Lock()
REC_Lock(p) ==
    /\ pc[p] = "rec_lock"
    /\ MutexFree(engines[loc[p].radio].mu)
    /\ engines' = [engines EXCEPT ![loc[p].radio].mu = p]
    /\ Goto(p, "rec_body")
    /\ UNCHANGED <<cacheVars, storeVars, now, managerVars, plays, loc, started>>

\* one window shared by all moods: the play is recorded in every engine
REC_Body_SharedWindow(p) ==
    /\ pc[p] = "rec_body"
    /\ engines' = [e \in 1..Len(engines) |->
                     [engines[e] EXCEPT
                        !.recentlyPlayed = RecordPlayWindow(@, loc[p].trackID, engines[e].maxRecent),
                        !.log = IF e = loc[p].radio THEN Append(@, loc[p].trackID) ELSE @,
                        !.mu = IF e = loc[p].radio THEN 0 ELSE @]]
    /\ loc' = [loc EXCEPT ![p].status = 200]
    /\ Goto(p, "done")
    /\ UNCHANGED <<cacheVars, storeVars, now, managerVars, plays, started>>

\* Radio.RecordPlay's body and the deferred r.mu.Unlock(); log lists the IDs the
\* engine was handed, in call order. A report then answers 200 "ok".
REC_Body(p) ==
    /\ pc[p] = "rec_body"
    /\ engines' = [engines EXCEPT
         ![loc[p].radio].recentlyPlayed =
             RecordPlayWindow(@, loc[p].trackID, engines[loc[p].radio].maxRecent),
         ![loc[p].radio].log = Append(@, loc[p].trackID),
         ![loc[p].radio].mu = 0]
    /\ loc' = [loc EXCEPT ![p].status = 200]
    /\ Goto(p, "done")
    /\ UNCHANGED <<cacheVars, storeVars, now, managerVars, plays, started>>

\* ------------------------------------- Manager.GetPlaylist / Manager.RecordPlay
\* Manager.GetPlaylist(mood, instrumentalOnly): GetRadio, then Radio.GetPlaylist
StartGetPlaylist(p) ==
    /\ pc[p] = "idle"
    /\ started' = started + 1
    /\ \E m \in ReqMoods, i \in BOOLEAN :
         loc' = [loc EXCEPT ![p] = [Blank EXCEPT !.kind = "playlist", !.mood = m,
                                                  !.inst = i, !.ret = "gp_query"]]
    /\ Goto(p, "gr_rlock")
    /\ UNCHANGED <<cacheVars, storeVars, now, managerVars, engines, plays>>

\* Manager.RecordPlay(mood, trackID) called with a track of one of the moods the
\* callers ask playlists for: GetRadio, then Radio.RecordPlay
StartRecordPlay(p) ==
    /\ pc[p] = "idle"
    /\ started' = started + 1
    /\ \E id \in TrackIds :
         /\ Catalog[id].status = "approved"
         /\ Catalog[id].mood \in ReqMoods
         /\ loc' = [loc EXCEPT ![p] = [Blank EXCEPT !.kind = "record", !.mood = Catalog[id].mood,
                                                     !.trackID = id, !.ret = "rec_lock"]]
    /\ Goto(p, "gr_rlock")
    /\ UNCHANGED <<cacheVars, storeVars, now, managerVars, engines, plays>>

\* the caller has its answer; the request's locals go away
Finish(p) ==
    /\ pc[p] = "done"
    /\ loc' = [loc EXCEPT ![p] = Blank]
    /\ Goto(p, "idle")
    /\ UNCHANGED <<cacheVars, storeVars, now, managerVars, engines, plays, started>>

\* ------------------------------------------- Handler.recordPlay (api handler)
\* the deferred tx.Rollback(): the table as it is after the transaction is dropped
Rollback_KeepsWrites(durable, inTx) == inTx

Rollback(durable, inTx) == durable

\* the request logs the error and ends with http.Error(w, ..., 500); an open
\* transaction is rolled back by the deferred call; what the request saw when
\* it began its transaction is of no use once the transaction is over
FailWith_LeavesTxOpen(p, locals, msg) ==
    /\ loc' = [locals EXCEPT ![p].status = 500, ![p].logged = msg,
                           ![p].statsAtBegin = <<>>, ![p].eventsAtBegin = <<>>]
    /\ Goto(p, "done")
    /\ UNCHANGED storeVars

FailWith(p, locals, msg) ==
    /\ loc' = [locals EXCEPT ![p].status = 500, ![p].logged = msg,
                           ![p].statsAtBegin = <<>>, ![p].eventsAtBegin = <<>>]
    /\ Goto(p, "done")
    /\ IF txOwner = p
       THEN /\ txOwner' = 0
            /\ playStats' = Rollback(playStats, txStats)
            /\ listenEvents' = Rollback(listenEvents, txEvents)
            /\ UNCHANGED <<txStats, txEvents>>
       ELSE UNCHANGED storeVars

Fail(p, msg) == FailWith(p, loc, msg)

\* the forms a request body comes in: none at all, zero bytes, bytes that are not
\* JSON, a JSON object, a JSON object whose listen_seconds is not a number
BodyForms == {"absent", "empty", "malformed", "object", "mistyped"}

\* the bodies clients send; a body that is not JSON may still spell out fields
Bodies ==
    {[form |-> "absent", event |-> "", mood |-> "", listen_seconds |-> 0, track_id |-> 0],
     [form |-> "empty", event |-> "", mood |-> "", listen_seconds |-> 0, track_id |-> 0]}
    \cup [form : {"malformed", "object", "mistyped"}, event : {"", "skip", "pause"},
          mood : BodyMoods, listen_seconds : {0, 1}, track_id : {0}]

\* var evt inventory.ListenEvent
ZeroEvent == [event |-> "", mood |-> "", listen_seconds |-> 0, track_id |-> 0]

\* a body that is not JSON is read as far as it spells out fields
Decode_ReadsMalformed(body) ==
    IF body.form \in {"object", "malformed"}
    THEN [event |-> body.event, mood |-> body.mood, listen_seconds |-> body.listen_seconds,
          track_id |-> body.track_id]
    ELSE IF body.form = "mistyped"
    THEN [event |-> body.event, mood |-> body.mood, listen_seconds |-> 0,
          track_id |-> body.track_id]
    ELSE ZeroEvent

\* the body as recordPlay decodes it: json.Unmarshal is called for a body of at
\* least one byte and its error is dropped. It checks the whole input before it
\* stores anything, so bytes that are not JSON leave evt zero; a value of the wrong
\* type leaves its own field zero and the other fields are stored.
Decode(body) ==
    IF body.form = "object"
    THEN [event |-> body.event, mood |-> body.mood, listen_seconds |-> body.listen_seconds,
          track_id |-> body.track_id]
    ELSE IF body.form = "mistyped"
    THEN [event |-> body.event, mood |-> body.mood, listen_seconds |-> 0,
          track_id |-> body.track_id]
    ELSE ZeroEvent

\* a track_id in the body stays in the event
EventTrackID_BodyWins(decoded, trackID) == IF decoded # 0 THEN decoded ELSE trackID

\* evt.TrackID = trackID: the event's track is the one of the path, whatever
\* track_id the body carried
EventTrackID(decoded, trackID) == trackID

\* recordPlay once the body is decoded into evt: set evt.TrackID from the path,
\* default the event type to play, validate it
Received(p, id, evt, form) ==
    /\ pc[p] = "idle"
    /\ started' = started + 1
    /\ LET evtType == IF evt.event = "" THEN "play" ELSE evt.event
           l == [Blank EXCEPT !.kind = "report", !.trackID = id,
                              !.evtTrackID = EventTrackID(evt.track_id, id),
                              !.bodyTrackID = evt.track_id,
                              !.evtType = evtType,
                              !.evtMood = evt.mood, !.secs = evt.listen_seconds,
                              !.form = form]
       IN  IF evtType \notin validEventTypes
           THEN /\ loc' = [loc EXCEPT ![p] = [l EXCEPT !.status = 400]]
                /\ Goto(p, "done")
           ELSE /\ loc' = [loc EXCEPT ![p] = l]
                /\ Goto(p, "rp_getbyid")
    /\ UNCHANGED <<cacheVars, storeVars, now, managerVars, engines, plays>>

\* a report whose body is a JSON object; et, bm and secs are its event, mood and
\* listen_seconds
Report(p, id, et, bm, secs) ==
    Received(p, id, [event |-> et, mood |-> bm, listen_seconds |-> secs, track_id |-> 0],
             "object")

\* a report with any body
StartReportWithBody(p) ==
    \E id \in ReportTrackIds, body \in Bodies : Received(p, id, Decode(body), body.form)

\* a report whose body carries no listen_seconds
StartReport(p) ==
    \E id \in ReportTrackIds, et \in BodyEventTypes, bm \in BodyMoods : Report(p, id, et, bm, 0)

\* a report from any client: the body's listen_seconds is whatever it sent
StartReportWithSeconds(p) ==
    \E id \in ReportTrackIds, et \in BodyEventTypes, bm \in BodyMoods, secs \in BodyListenSeconds :
      Report(p, id, et, bm, secs)

\* the track_id a body may carry: none, another catalog track, no track
BodyTrackIds == {0, 2, MissingId}

\* a report whose body is a JSON object that may carry a track_id
StartReportWithTrackID(p) ==
    \E id \in ReportTrackIds, tid \in BodyTrackIds, et \in {"", "skip"}, bm \in BodyMoods :
      Received(p, id,
               Decode([form |-> "object", event |-> et, mood |-> bm, listen_seconds |-> 0,
                       track_id |-> tid]),
               "object")

\* the track the web client plays, from the focus playlist
ClientTrack == 1

\* the web client's reports for its playbacks of one track: notifyListen(id, 'play')
\* when the track starts, notifyListen(id, 'complete', seconds) when it has ended,
\* then the next playback; the body carries the playlist's mood
ClientReport(p) ==
    \E secs \in {0, 1} :
      Received(p, ClientTrack,
               [event |-> IF started % 2 = 0 THEN "play" ELSE "complete",
                mood |-> Catalog[ClientTrack].mood,
                listen_seconds |-> IF started % 2 = 0 THEN 0 ELSE secs,
                track_id |-> 0],
               "object")

\* a lookup error ends the request like the errors of the transaction
RP_GetByID_FailsRequest(p) ==
    /\ pc[p] = "rp_getbyid"
    /\ ConnFree
    /\ \/ /\ loc' = [loc EXCEPT ![p].status = 500, ![p].logged = "failed to get track"]
          /\ Goto(p, "done")
       \/ /\ LET track == GetByID(loc[p].trackID)
             IN  loc' = [loc EXCEPT ![p].track = track,
                                    ![p].evtMood = IF track # 0 /\ @ = ""
                                                   THEN Catalog[track].mood ELSE @]
          /\ Goto(p, "rp_begin")
    /\ UNCHANGED <<cacheVars, storeVars, now, managerVars, engines, plays, started>>

\* track, err := h.repo.GetByID(trackID): an error is logged and leaves track nil;
\* a found track fills an empty evt.Mood
RP_GetByID(p) ==
    /\ pc[p] = "rp_getbyid"
    /\ ConnFree
    /\ \/ UNCHANGED loc
       \/ LET track == GetByID(loc[p].trackID)
          IN  loc' = [loc EXCEPT ![p].track = track,
                                 ![p].evtMood = IF track # 0 /\ @ = ""
                                                THEN Catalog[track].mood ELSE @]
    /\ Goto(p, "rp_begin")
    /\ UNCHANGED <<cacheVars, storeVars, now, managerVars, engines, plays, started>>

\* tx, err := h.repo.BeginTx(ctx); defer tx.Rollback()
RP_BeginTx(p) ==
    /\ pc[p] = "rp_begin"
    /\ ConnFree
    /\ \/ Fail(p, "Error starting transaction")
       \/ /\ txOwner' = p
          /\ txStats' = playStats
          /\ txEvents' = listenEvents
          /\ loc' = [loc EXCEPT ![p].statsAtBegin = playStats,
                                ![p].eventsAtBegin = listenEvents]
          /\ Goto(p, "rp_stats")
          /\ UNCHANGED <<playStats, listenEvents>>
    /\ UNCHANGED <<cacheVars, now, managerVars, engines, plays, started>>

\* whether the report updates play_stats
UpdatesStats_Always(evtType) == TRUE

UpdatesStats(evtType) == evtType # "skip"

\* an update that affects no row is taken for a success
RP_UpdateStats_IgnoresNotFound(p) ==
    /\ pc[p] = "rp_stats"
    /\ IF UpdatesStats(loc[p].evtType)
       THEN LET called == [loc EXCEPT ![p].statCalls = @ + 1]
            IN  \/ FailWith(p, called, "Error recording play")
                \/ /\ txStats' = IF RowsAffected(loc[p].trackID) = 0 THEN txStats
                                  ELSE UpsertPlayStats(txStats, loc[p].trackID, now)
                   /\ loc' = called
                   /\ Goto(p, "rp_event")
                   /\ UNCHANGED <<playStats, listenEvents, txOwner, txEvents>>
       ELSE /\ Goto(p, "rp_event")
            /\ UNCHANGED <<storeVars, loc>>
    /\ UNCHANGED <<cacheVars, now, managerVars, engines, plays, started>>

\* if evt.EventType != skip: UpdatePlayStatsTx(tx, trackID), which fails when the
\* statement fails or affects no row
RP_UpdateStats(p) ==
    /\ pc[p] = "rp_stats"
    /\ IF UpdatesStats(loc[p].evtType)
       THEN LET called == [loc EXCEPT ![p].statCalls = @ + 1]
            IN  \/ FailWith(p, called, "Error recording play")
                \/ /\ RowsAffected(loc[p].trackID) = 0
                   /\ FailWith(p, called, "Error recording play")
                \/ /\ RowsAffected(loc[p].trackID) # 0
                   /\ txStats' = UpsertPlayStats(txStats, loc[p].trackID, now)
                   /\ loc' = called
                   /\ Goto(p, "rp_event")
                   /\ UNCHANGED <<playStats, listenEvents, txOwner, txEvents>>
       ELSE /\ Goto(p, "rp_event")
            /\ UNCHANGED <<storeVars, loc>>
    /\ UNCHANGED <<cacheVars, now, managerVars, engines, plays, started>>

\* the listen event is recorded for a resolved track only
RP_ListenEvent_NeedsTrack(p) ==
    /\ pc[p] = "rp_event"
    /\ IF loc[p].track # 0
       THEN LET called == [loc EXCEPT ![p].eventCalls = @ + 1]
            IN  \/ FailWith(p, called, "Error recording listen event")
                \/ /\ txEvents' = Append(txEvents, [track_id |-> loc[p].evtTrackID,
                                                    mood |-> loc[p].evtMood,
                                                    event_type |-> loc[p].evtType,
                                                    listen_seconds |-> loc[p].secs])
                   /\ loc' = called
                   /\ Goto(p, "rp_commit")
                   /\ UNCHANGED <<playStats, listenEvents, txOwner, txStats>>
       ELSE /\ Goto(p, "rp_commit")
            /\ UNCHANGED <<storeVars, loc>>
    /\ UNCHANGED <<cacheVars, now, managerVars, engines, plays, started>>

\* if evt.Mood != "": RecordListenEventTx(tx, evt)
RP_ListenEvent(p) ==
    /\ pc[p] = "rp_event"
    /\ IF loc[p].evtMood # ""
       THEN LET called == [loc EXCEPT ![p].eventCalls = @ + 1]
            IN  \/ FailWith(p, called, "Error recording listen event")
                \/ /\ txEvents' = Append(txEvents, [track_id |-> loc[p].evtTrackID,
                                                    mood |-> loc[p].evtMood,
                                                    event_type |-> loc[p].evtType,
                                                    listen_seconds |-> loc[p].secs])
                   /\ loc' = called
                   /\ Goto(p, "rp_commit")
                   /\ UNCHANGED <<playStats, listenEvents, txOwner, txStats>>
       ELSE /\ Goto(p, "rp_commit")
            /\ UNCHANGED <<storeVars, loc>>
    /\ UNCHANGED <<cacheVars, now, managerVars, engines, plays, started>>

\* a commit error ends the request like every other store error
RP_Commit_FallsThrough(p) ==
    /\ pc[p] = "rp_commit"
    /\ \/ /\ txOwner' = 0
          /\ Goto(p, "rp_memory")
          /\ UNCHANGED <<playStats, listenEvents, txStats, txEvents, loc>>
       \/ /\ txOwner' = 0
          /\ playStats' = txStats
          /\ listenEvents' = txEvents
          /\ loc' = [loc EXCEPT ![p].committed = TRUE, ![p].statsAtBegin = <<>>,
                                ![p].eventsAtBegin = <<>>]
          /\ Goto(p, "rp_memory")
          /\ UNCHANGED <<txStats, txEvents>>
    /\ UNCHANGED <<cacheVars, now, managerVars, engines, plays, started>>

\* tx.Commit()
RP_Commit(p) ==
    /\ pc[p] = "rp_commit"
    /\ \/ Fail(p, "Error committing transaction")
       \/ /\ txOwner' = 0
          /\ playStats' = txStats
          /\ listenEvents' = txEvents
          /\ loc' = [loc EXCEPT ![p].committed = TRUE, ![p].statsAtBegin = <<>>,
                                ![p].eventsAtBegin = <<>>]
          /\ Goto(p, "rp_memory")
          /\ UNCHANGED <<txStats, txEvents>>
    /\ UNCHANGED <<cacheVars, now, managerVars, engines, plays, started>>

\* whether the report counts as a play in memory
CountsAsPlay_Always(evtType) == TRUE

CountsAsPlay(evtType) == evtType # "skip"

\* after the commit the cached playlists and mood list are dropped as well
RP_Memory_Invalidates(p) ==
    /\ pc[p] = "rp_memory"
    /\ items' = InvalidateItems(items)
    /\ IF CountsAsPlay(loc[p].evtType)
       THEN /\ plays' = plays + 1
            /\ IF loc[p].track # 0
               THEN /\ loc' = [loc EXCEPT ![p].mood = Catalog[loc[p].track].mood,
                                          ![p].ret = "rec_lock"]
                    /\ Goto(p, "gr_rlock")
               ELSE /\ loc' = [loc EXCEPT ![p].status = 200]
                    /\ Goto(p, "done")
       ELSE /\ loc' = [loc EXCEPT ![p].status = 200]
            /\ Goto(p, "done")
            /\ UNCHANGED plays
    /\ UNCHANGED <<hits, misses, invalidations, sweepNow, storeVars, now, managerVars, engines,
                   started>>

\* after the commit: for a non-skip event metrics.Get().RecordPlay() and, for a
\* resolved track, h.radio.RecordPlay(track.Mood, trackID); then 200 "ok"
\* the play is recorded under the mood the event carries
RP_Memory_EventMood(p) ==
    /\ pc[p] = "rp_memory"
    /\ IF CountsAsPlay(loc[p].evtType)
       THEN /\ plays' = plays + 1
            /\ IF loc[p].track # 0
               THEN /\ loc' = [loc EXCEPT ![p].mood = loc[p].evtMood,
                                          ![p].ret = "rec_lock"]
                    /\ Goto(p, "gr_rlock")
               ELSE /\ loc' = [loc EXCEPT ![p].status = 200]
                    /\ Goto(p, "done")
       ELSE /\ loc' = [loc EXCEPT ![p].status = 200]
            /\ Goto(p, "done")
            /\ UNCHANGED plays
    /\ UNCHANGED <<cacheVars, storeVars, now, managerVars, engines, started>>

RP_Memory(p) ==
    /\ pc[p] = "rp_memory"
    /\ IF CountsAsPlay(loc[p].evtType)
       THEN /\ plays' = plays + 1
            /\ IF loc[p].track # 0
               THEN /\ loc' = [loc EXCEPT ![p].mood = Catalog[loc[p].track].mood,
                                          ![p].ret = "rec_lock"]
                    /\ Goto(p, "gr_rlock")
               ELSE /\ loc' = [loc EXCEPT ![p].status = 200]
                    /\ Goto(p, "done")
       ELSE /\ loc' = [loc EXCEPT ![p].status = 200]
            /\ Goto(p, "done")
            /\ UNCHANGED plays
    /\ UNCHANGED <<cacheVars, storeVars, now, managerVars, engines, started>>

\* ------------------------------------------------------- Cache (cache.go)
\* Cache.Get, under the read lock: e, ok := c.items[key]
CG_Read(p) ==
    /\ pc[p] = "cg_read"
    /\ loc' = [loc EXCEPT ![p].entry = items[loc[p].key]]
    /\ Goto(p, "cg_check")
    /\ UNCHANGED <<cacheVars, storeVars, now, managerVars, engines, plays, started>>

\* a Get that finds an expired entry counts neither a hit nor a miss
CG_Check_ExpiryUncounted(p) ==
    /\ pc[p] = "cg_check"
    /\ LET got == GetResult(loc[p].entry, now)
       IN  IF got.found
           THEN /\ hits' = hits + 1
                /\ UNCHANGED misses
                /\ loc' = [loc EXCEPT ![p].hit = TRUE, ![p].value = got.value, ![p].status = 200,
                                      ![p].servedEpoch = loc[p].entry.epoch,
                                      ![p].entry = NoEntry]
                /\ Goto(p, "done")
           ELSE /\ misses' = IF loc[p].entry.present THEN misses ELSE misses + 1
                /\ UNCHANGED hits
                /\ loc' = [loc EXCEPT ![p].entry = NoEntry,
                                      ![p].status = IF loc[p].kind = "get" THEN 200 ELSE @]
                /\ Goto(p, CASE loc[p].kind = "serve" -> "gr_rlock"
                             [] loc[p].kind = "moods" -> "lm_query"
                             [] OTHER -> "done")
    /\ UNCHANGED <<items, invalidations, sweepNow, storeVars, now, managerVars, engines,
                   plays, started>>

\* Cache.Get after the lock is released: the expiry test against time.Now(), one
\* counter, the answer. On a hit listMoods and getPlaylist answer with the cached
\* value; on a miss listMoods queries the store and getPlaylist asks the registry.
CG_Check(p) ==
    /\ pc[p] = "cg_check"
    /\ LET got == GetResult(loc[p].entry, now)
       IN  IF got.found
           THEN /\ hits' = hits + 1
                /\ UNCHANGED misses
                /\ loc' = [loc EXCEPT ![p].hit = TRUE, ![p].value = got.value, ![p].status = 200,
                                      ![p].servedEpoch = loc[p].entry.epoch,
                                      ![p].entry = NoEntry]
                /\ Goto(p, "done")
           ELSE /\ misses' = misses + 1
                /\ UNCHANGED hits
                /\ loc' = [loc EXCEPT ![p].entry = NoEntry,
                                      ![p].status = IF loc[p].kind = "get" THEN 200 ELSE @]
                /\ Goto(p, CASE loc[p].kind = "serve" -> "gr_rlock"
                             [] loc[p].kind = "moods" -> "lm_query"
                             [] OTHER -> "done")
    /\ UNCHANGED <<items, invalidations, sweepNow, storeVars, now, managerVars, engines,
                   plays, started>>

\* Cache.Get(key) called directly
StartGet(p) ==
    /\ pc[p] = "idle"
    /\ started' = started + 1
    /\ \E k \in RawKeys :
         loc' = [loc EXCEPT ![p] = [Blank EXCEPT !.kind = "get", !.key = k,
                                                  !.startEpoch = invalidations]]
    /\ Goto(p, "cg_read")
    /\ UNCHANGED <<cacheVars, storeVars, now, managerVars, engines, plays>>

\* Cache.Set(key, value) called directly; the write happens under the write lock
CacheSet ==
    /\ started' = started + 1
    /\ \E k \in RawKeys, v \in RawValues : items' = SetItem(items, k, v, now, invalidations)
    /\ UNCHANGED <<hits, misses, invalidations, sweepNow, storeVars, now, managerVars, engines,
                   plays, pc, loc>>

\* Cache.InvalidateMoods, under the write lock
InvalidateMoods ==
    /\ invalidations < MaxInvalidations
    /\ items' = InvalidateItems(items)
    /\ invalidations' = invalidations + 1
    /\ UNCHANGED <<hits, misses, sweepNow, storeVars, now, managerVars, engines, plays, pc, loc,
                   started>>

\* the cleanup goroutine's ticker fires; evictExpired: now := time.Now()
Sweep_ReadClock ==
    /\ sweepNow = -1
    /\ sweepNow' = now
    /\ UNCHANGED <<items, hits, misses, invalidations, storeVars, now, managerVars, engines,
                   plays, pc, loc, started>>

\* evictExpired, under the write lock
Sweep_Evict ==
    /\ sweepNow # -1
    /\ items' = EvictExpired(items, sweepNow)
    /\ sweepNow' = -1
    /\ UNCHANGED <<hits, misses, invalidations, storeVars, now, managerVars, engines, plays,
                   pc, loc, started>>

\* a cache lifetime passes
Lapse ==
    /\ now <= MaxTime
    /\ now' = now + DefaultTTL
    /\ UNCHANGED <<cacheVars, storeVars, managerVars, engines, plays, pc, loc, started>>

\* ------------------------------- Handler.getPlaylist / listMoods (api handler)
\* handleMoods for a known mood, then getPlaylist: the cache key, h.cache.Get
StartServe(p) ==
    /\ pc[p] = "idle"
    /\ started' = started + 1
    /\ \E m \in ReqMoods, i \in BOOLEAN :
         loc' = [loc EXCEPT ![p] = [Blank EXCEPT !.kind = "serve", !.mood = m, !.inst = i,
                                                  !.key = CacheKeyFor(m, i), !.ret = "gp_query",
                                                  !.startEpoch = invalidations]]
    /\ Goto(p, "cg_read")
    /\ UNCHANGED <<cacheVars, storeVars, now, managerVars, engines, plays>>

\* whether handleMoods lets the mood through
KnownMood_Any(mood) == TRUE

KnownMood(mood) == mood \in validMoods

\* handleMoods for /api/moods/{mood}/playlist: a mood outside validMoods is
\* answered 404 "Unknown mood"; otherwise getPlaylist: the cache key, h.cache.Get
HandleMoods(p) ==
    /\ pc[p] = "idle"
    /\ started' = started + 1
    /\ \E m \in PathMoods, i \in BOOLEAN :
         IF ~KnownMood(m)
         THEN /\ loc' = [loc EXCEPT ![p] = [Blank EXCEPT !.kind = "serve", !.mood = m, !.inst = i,
                                                       !.status = 404,
                                                       !.startEpoch = invalidations]]
              /\ Goto(p, "done")
         ELSE /\ loc' = [loc EXCEPT ![p] = [Blank EXCEPT !.kind = "serve", !.mood = m, !.inst = i,
                                                       !.key = CacheKeyFor(m, i),
                                                       !.ret = "gp_query",
                                                       !.startEpoch = invalidations]]
              /\ Goto(p, "cg_read")
    /\ UNCHANGED <<cacheVars, storeVars, now, managerVars, engines, plays>>

\* the instrumental focus playlist is asked for: one cache key, requested by
\* every client
StartServeOneKey(p) ==
    /\ pc[p] = "idle"
    /\ started' = started + 1
    /\ loc' = [loc EXCEPT ![p] = [Blank EXCEPT !.kind = "serve", !.mood = "focus", !.inst = TRUE,
                                                !.key = CacheKeyFor("focus", TRUE),
                                                !.ret = "gp_query",
                                                !.startEpoch = invalidations]]
    /\ Goto(p, "cg_read")
    /\ UNCHANGED <<cacheVars, storeVars, now, managerVars, engines, plays>>

\* listMoods: h.cache.Get(cache.KeyMoodsList)
StartMoods(p) ==
    /\ pc[p] = "idle"
    /\ started' = started + 1
    /\ loc' = [loc EXCEPT ![p] = [Blank EXCEPT !.kind = "moods", !.key = KeyMoodsList,
                                                !.startEpoch = invalidations]]
    /\ Goto(p, "cg_read")
    /\ UNCHANGED <<cacheVars, storeVars, now, managerVars, engines, plays>>

\* listMoods on a miss: h.repo.GetMoodStats(); an error ends the request with 500
LM_Query(p) ==
    /\ pc[p] = "lm_query"
    /\ ConnFree
    /\ \/ /\ loc' = [loc EXCEPT ![p].status = 500, ![p].logged = "Error fetching moods"]
          /\ Goto(p, "done")
       \/ /\ loc' = [loc EXCEPT ![p].result = GetMoodStats, ![p].readEpoch = invalidations]
          /\ Goto(p, "lm_set")
    /\ UNCHANGED <<cacheVars, storeVars, now, managerVars, engines, plays, started>>

\* listMoods: h.cache.Set(cache.KeyMoodsList, result), then the answer, X-Cache: MISS
LM_Set(p) ==
    /\ pc[p] = "lm_set"
    /\ items' = SetItem(items, loc[p].key, loc[p].result, now, loc[p].readEpoch)
    /\ loc' = [loc EXCEPT ![p].value = loc[p].result, ![p].status = 200]
    /\ Goto(p, "done")
    /\ UNCHANGED <<hits, misses, invalidations, sweepNow, storeVars, now, managerVars, engines,
                   plays, started>>

\* if tracks == nil { tracks = []*inventory.Track{} }: whether tracks is nil afterwards
NilReplaced(isNil) == FALSE

\* toPlaylistTracks: a slice made with the length of its argument, never nil
ToPlaylistTracks(tracks, isNil) == [items |-> tracks, isNil |-> FALSE]

\* getPlaylist after the engine's answer: a nil slice is replaced by an empty one,
\* the slim view of the tracks is cached when it is not empty, then the answer,
\* X-Cache: MISS; a nil slim view would be encoded as null, any other as an array
\* every computed playlist is stored, the empty one too
H_Set_CachesEmpty(p) ==
    /\ pc[p] = "h_set"
    /\ LET slim == ToPlaylistTracks(loc[p].result, NilReplaced(loc[p].isNil))
       IN  /\ items' = SetItem(items, loc[p].key, slim.items, now, loc[p].readEpoch)
           /\ loc' = [loc EXCEPT ![p].value = slim.items, ![p].isNil = slim.isNil]
    /\ Goto(p, "done")
    /\ UNCHANGED <<hits, misses, invalidations, sweepNow, storeVars, now, managerVars, engines,
                   plays, started>>

H_Set(p) ==
    /\ pc[p] = "h_set"
    /\ LET slim == ToPlaylistTracks(loc[p].result, NilReplaced(loc[p].isNil))
       IN  /\ items' = IF Len(slim.items) > 0
                       THEN SetItem(items, loc[p].key, slim.items, now, loc[p].readEpoch)
                       ELSE items
           /\ loc' = [loc EXCEPT ![p].value = slim.items, ![p].isNil = slim.isNil]
    /\ Goto(p, "done")
    /\ UNCHANGED <<hits, misses, invalidations, sweepNow, storeVars, now, managerVars, engines,
                   plays, started>>

\* ----------------------------------------------------------- specifications
\* a request arrives and is served by the first idle goroutine
Arrives(p) == started < MaxRequests /\ \A q \in Procs : q < p => pc[q] # "idle"

\* play reports through the handler, served concurrently, while the clock runs
Next ==
    \/ Tick
    \/ \E p \in Procs :
         \/ Arrives(p) /\ StartReport(p)
         \/ RP_GetByID(p) \/ RP_BeginTx(p) \/ RP_UpdateStats(p) \/ RP_ListenEvent(p)
         \/ RP_Commit(p) \/ RP_Memory(p)
         \/ GR_RLock(p) \/ GR_Read(p) \/ GR_Lock(p) \/ GR_Create(p)
         \/ REC_Lock(p) \/ REC_Body(p)
         \/ Finish(p)

Spec == Init /\ [][Next]_vars

\* concurrent callers of the registry: playlists and recorded plays
ConcNext ==
    \E p \in Procs :
      \/ Arrives(p) /\ StartGetPlaylist(p)
      \/ Arrives(p) /\ StartRecordPlay(p)
      \/ GR_RLock(p) \/ GR_Read(p) \/ GR_Lock(p) \/ GR_Create(p)
      \/ GP_Query(p) \/ GP_Lock(p) \/ GP_RecentSet(p) \/ GP_Partition(p)
      \/ REC_Lock(p) \/ REC_Body(p)
      \/ Finish(p)

SpecConc == Init /\ [][ConcNext]_vars

\* one caller using the registry directly, one call after the other
EngineNext ==
    \/ started < MaxCalls /\ StartGetPlaylist(1)
    \/ started < MaxCalls /\ StartRecordPlay(1)
    \/ GR_RLock(1) \/ GR_Read(1) \/ GR_Lock(1) \/ GR_Create(1)
    \/ GP_Query(1) \/ GP_Lock(1) \/ GP_RecentSet(1) \/ GP_Partition(1)
    \/ REC_Lock(1) \/ REC_Body(1)
    \/ Finish(1)

SpecEngine == Init /\ [][EngineNext]_vars

\* a caller of the cache reading while other goroutines write, invalidate and
\* sweep, and the clock runs
CacheNext ==
    \/ Tick \/ Lapse
    \/ Sweep_ReadClock \/ Sweep_Evict
    \/ InvalidateMoods
    \/ started < MaxCacheCalls /\ CacheSet
    \/ started < MaxCacheCalls /\ StartGet(1)
    \/ CG_Read(1) \/ CG_Check(1)
    \/ Finish(1)

SpecCache == Init /\ [][CacheNext]_vars

\* playlists and the mood list served concurrently in front of the cache, while
\* the cache is invalidated; every entry is younger than its lifetime
ServeNext ==
    \/ InvalidateMoods
    \/ \E p \in Procs :
         \/ Arrives(p) /\ StartServe(p)
         \/ Arrives(p) /\ StartMoods(p)
         \/ CG_Read(p) \/ CG_Check(p)
         \/ LM_Query(p) \/ LM_Set(p)
         \/ GR_RLock(p) \/ GR_Read(p) \/ GR_Lock(p) \/ GR_Create(p)
         \/ GP_Query(p) \/ GP_Lock(p) \/ GP_RecentSet(p) \/ GP_Partition(p) \/ H_Set(p)
         \/ Finish(p)

SpecServe == Init /\ [][ServeNext]_vars

\* one client using the three endpoints, one request after the other, while the
\* cache is invalidated
FrontNext ==
    \/ InvalidateMoods
    \/ started < MaxRequests /\ StartServe(1)
    \/ started < MaxRequests /\ StartMoods(1)
    \/ started < MaxRequests /\ StartReport(1)
    \/ CG_Read(1) \/ CG_Check(1)
    \/ LM_Query(1) \/ LM_Set(1)
    \/ GR_RLock(1) \/ GR_Read(1) \/ GR_Lock(1) \/ GR_Create(1)
    \/ GP_Query(1) \/ GP_Lock(1) \/ GP_RecentSet(1) \/ GP_Partition(1) \/ H_Set(1)
    \/ RP_GetByID(1) \/ RP_BeginTx(1) \/ RP_UpdateStats(1) \/ RP_ListenEvent(1)
    \/ RP_Commit(1) \/ RP_Memory(1)
    \/ REC_Lock(1) \/ REC_Body(1)
    \/ Finish(1)

SpecFront == Init /\ [][FrontNext]_vars

\* reports from any client, one after the other
ReportNext ==
    \/ Tick
    \/ started < MaxRequests /\ StartReportWithSeconds(1)
    \/ RP_GetByID(1) \/ RP_BeginTx(1) \/ RP_UpdateStats(1) \/ RP_ListenEvent(1)
    \/ RP_Commit(1) \/ RP_Memory(1)
    \/ GR_RLock(1) \/ GR_Read(1) \/ GR_Lock(1) \/ GR_Create(1)
    \/ REC_Lock(1) \/ REC_Body(1)
    \/ Finish(1)

SpecReport == Init /\ [][ReportNext]_vars

\* reports with any body, one after the other
BodyNext ==
    \/ Tick
    \/ started < MaxRequests /\ StartReportWithBody(1)
    \/ RP_GetByID(1) \/ RP_BeginTx(1) \/ RP_UpdateStats(1) \/ RP_ListenEvent(1)
    \/ RP_Commit(1) \/ RP_Memory(1)
    \/ GR_RLock(1) \/ GR_Read(1) \/ GR_Lock(1) \/ GR_Create(1)
    \/ REC_Lock(1) \/ REC_Body(1)
    \/ Finish(1)

SpecBody == Init /\ [][BodyNext]_vars

\* one client asking for the mood list and for playlists by any mood name, one
\* request after the other, while the cache is invalidated
MoodsNext ==
    \/ InvalidateMoods
    \/ started < MaxRequests /\ HandleMoods(1)
    \/ started < MaxRequests /\ StartMoods(1)
    \/ CG_Read(1) \/ CG_Check(1)
    \/ LM_Query(1) \/ LM_Set(1)
    \/ GR_RLock(1) \/ GR_Read(1) \/ GR_Lock(1) \/ GR_Create(1)
    \/ GP_Query(1) \/ GP_Lock(1) \/ GP_RecentSet(1) \/ GP_Partition(1) \/ H_Set(1)
    \/ Finish(1)

SpecMoods == Init /\ [][MoodsNext]_vars

\* one caller asking the registry for playlists on a database that has been in use
StoreNext ==
    \/ started < MaxRequests /\ StartGetPlaylist(1)
    \/ GR_RLock(1) \/ GR_Read(1) \/ GR_Lock(1) \/ GR_Create(1)
    \/ GP_Query(1) \/ GP_Lock(1) \/ GP_RecentSet(1) \/ GP_Partition(1)
    \/ Finish(1)

SpecStore == InitStore /\ [][StoreNext]_vars

\* one caller using the registry, one call after the other, on an engine built
\* with some window size
SpecWindow == InitWindow /\ [][EngineNext]_vars

\* concurrent callers of the registry on an engine built with some window size
SpecConcWindow == InitWindow /\ [][ConcNext]_vars

\* the web client playing one track again and again, each report answered before
\* the next is sent
PlaybackNext ==
    \/ Tick
    \/ started < MaxRequests /\ ClientReport(1)
    \/ RP_GetByID(1) \/ RP_BeginTx(1) \/ RP_UpdateStats(1) \/ RP_ListenEvent(1)
    \/ RP_Commit(1) \/ RP_Memory(1)
    \/ GR_RLock(1) \/ GR_Read(1) \/ GR_Lock(1) \/ GR_Create(1)
    \/ REC_Lock(1) \/ REC_Body(1)
    \/ Finish(1)

SpecPlayback == Init /\ [][PlaybackNext]_vars

\* one playlist served to concurrent clients in front of the cache while entries
\* age out and the cache is invalidated
StaleNext ==
    \/ Tick \/ Lapse
    \/ Sweep_ReadClock \/ Sweep_Evict
    \/ InvalidateMoods
    \/ \E p \in Procs :
         \/ Arrives(p) /\ StartServeOneKey(p)
         \/ CG_Read(p) \/ CG_Check(p)
         \/ GR_RLock(p) \/ GR_Read(p) \/ GR_Lock(p) \/ GR_Create(p)
         \/ GP_Query(p) \/ GP_Lock(p) \/ GP_RecentSet(p) \/ GP_Partition(p) \/ H_Set(p)
         \/ Finish(p)

SpecStale == Init /\ [][StaleNext]_vars

\* a play report for the client's track, with no mood in its body
StartOneReport(p) == Report(p, ClientTrack, "play", "", 0)

\* the steps of request p once it has started
Step(p) ==
    \/ CG_Read(p) \/ CG_Check(p)
    \/ GR_RLock(p) \/ GR_Read(p) \/ GR_Lock(p) \/ GR_Create(p)
    \/ GP_Query(p) \/ GP_Lock(p) \/ GP_RecentSet(p) \/ GP_Partition(p) \/ H_Set(p)
    \/ RP_GetByID(p) \/ RP_BeginTx(p) \/ RP_UpdateStats(p) \/ RP_ListenEvent(p)
    \/ RP_Commit(p) \/ RP_Memory(p)
    \/ REC_Lock(p) \/ REC_Body(p)
    \/ Finish(p)

\* playlists and play reports served concurrently while the cache is invalidated
\* and swept
LocksNext ==
    \/ Sweep_ReadClock \/ Sweep_Evict
    \/ InvalidateMoods
    \/ \E p \in Procs :
         \/ Arrives(p) /\ StartServeOneKey(p)
         \/ Arrives(p) /\ StartOneReport(p)
         \/ Step(p)

SpecLocks == Init /\ [][LocksNext]_vars

\* playlists and play reports served concurrently on the store's one connection
TxNext ==
    \E p \in Procs :
      \/ Arrives(p) /\ StartServeOneKey(p)
      \/ Arrives(p) /\ StartOneReport(p)
      \/ Step(p)

SpecTx == Init /\ [][TxNext]_vars

\* the same, every request goroutine being scheduled again and again
FairSpecTx == SpecTx /\ \A p \in Procs : WF_vars(Step(p))

\* reports whose bodies may carry a track_id, one after the other
TrackIDNext ==
    \/ started < MaxRequests /\ StartReportWithTrackID(1)
    \/ RP_GetByID(1) \/ RP_BeginTx(1) \/ RP_UpdateStats(1) \/ RP_ListenEvent(1)
    \/ RP_Commit(1) \/ RP_Memory(1)
    \/ GR_RLock(1) \/ GR_Read(1) \/ GR_Lock(1) \/ GR_Create(1)
    \/ REC_Lock(1) \/ REC_Body(1)
    \/ Finish(1)

SpecTrackID == Init /\ [][TrackIDNext]_vars

\* the local resolver applied to a file path
Resolve(p) ==
    /\ pc[p] = "resolve"
    /\ loc' = [loc EXCEPT ![p].url = ResolveURL(loc[p].filePath)]
    /\ Goto(p, "done")
    /\ UNCHANGED <<playStats, listenEvents, txOwner, txStats, txEvents, now, radios,
                   engines, mgrWriter, mgrReaders, plays, started, items, hits, misses,
                   invalidations, sweepNow>>

ResolverNext == Resolve(1)

SpecResolver == InitResolver /\ [][ResolverNext]_vars

\* ------------------------------------------------------------------ claims
Occurrences(s, x) == Cardinality({i \in 1..Len(s) : s[i] = x})

\* the step by which request p leaves shuffleWithRecencyLocked with its playlist
Shuffles(p) == pc[p] = "gp_partition" /\ pc'[p] # "gp_partition"

\* the window of the engine request p works on
WindowOf(p) == engines[loc[p].radio].recentlyPlayed

\* C1: the playlist GetPlaylist returns for a non-empty list of eligible tracks
\* holds exactly the track IDs the store delivered, each exactly once, whatever
\* the recency window holds.
C1_PlaylistIsPermutation ==
    [][\A p \in Procs : Shuffles(p) =>
          /\ Len(loc'[p].result) = Len(loc[p].tracks)
          /\ \A id \in Range(loc[p].tracks) \cup Range(loc'[p].result) :
                /\ Occurrences(loc'[p].result, id) = 1
                /\ Occurrences(loc[p].tracks, id) = 1]_vars

\* a playlist of all focus tracks returned in another order than the IDs' own,
\* while the window holds two of them
C1_Witness ==
    /\ pc[1] = "done"
    /\ loc[1].kind = "playlist"
    /\ Len(loc[1].result) = DefaultMaxRecent + 1
    /\ loc[1].result[1] > loc[1].result[2]
    /\ Len(engines[loc[1].radio].recentlyPlayed) = 2

\* C2: when the window is non-empty and some eligible track is not in it, every
\* track of the returned playlist that is in the window comes after every track
\* that is not.
C2_RecentTracksLast ==
    [][\A p \in Procs :
          (/\ Shuffles(p)
           /\ WindowOf(p) # <<>>
           /\ Range(loc[p].tracks) \ Range(WindowOf(p)) # {})
          => \A i, j \in 1..Len(loc'[p].result) :
                (/\ loc'[p].result[i] \in Range(WindowOf(p))
                 /\ loc'[p].result[j] \notin Range(WindowOf(p))) => j < i]_vars

\* a returned playlist with tracks inside and outside the window
C2_Witness ==
    /\ pc[1] = "done"
    /\ loc[1].kind = "playlist"
    /\ Range(loc[1].result) \cap Range(engines[loc[1].radio].recentlyPlayed) # {}
    /\ Range(loc[1].result) \ Range(engines[loc[1].radio].recentlyPlayed) # {}
    /\ Cardinality(Range(loc[1].result) \ Range(engines[loc[1].radio].recentlyPlayed)) >= 2

\* the IDs among the n most recently recorded distinct ones of a call log
LastIndex(log, id) == CHOOSE i \in 1..Len(log) : log[i] = id /\ \A j \in 1..Len(log) : log[j] = id => j <= i

MostRecentDistinct(log, n) ==
    {id \in Range(log) :
        Cardinality({other \in Range(log) : LastIndex(log, other) > LastIndex(log, id)}) < n}

\* C6: after any sequence of RecordPlay calls the window holds exactly the up-to-N
\* most recently played distinct track IDs, so a track just played stays in the
\* window until N other distinct tracks were played after it.
C6_WindowIsMostRecentDistinct ==
    \A e \in 1..Len(engines) :
        Range(engines[e].recentlyPlayed) = MostRecentDistinct(engines[e].log, engines[e].maxRecent)

\* C7: from an empty window of size N, after N+1 RecordPlay calls with pairwise
\* distinct IDs the window is the last N of them in call order: the first is evicted.
C7_OldestEvictedFirst ==
    \A e \in 1..Len(engines) :
        LET log == engines[e].log
            n == engines[e].maxRecent
        IN  (Len(log) = n + 1 /\ Cardinality(Range(log)) = n + 1)
            => engines[e].recentlyPlayed = SubSeq(log, 2, n + 1)

\* an engine that was handed N+1 pairwise distinct IDs
C7_Witness ==
    \E e \in 1..Len(engines) :
        /\ Len(engines[e].log) = engines[e].maxRecent + 1
        /\ Cardinality(Range(engines[e].log)) = engines[e].maxRecent + 1

\* C8: RecordPlay for an ID that is in the window leaves the window as it is, in
\* contents, size and order.
C8_RecordPlayIdempotent ==
    [][\A p \in Procs :
          (/\ pc[p] = "rec_body"
           /\ pc'[p] # "rec_body"
           /\ loc[p].trackID \in Range(WindowOf(p)))
          => engines'[loc[p].radio].recentlyPlayed = WindowOf(p)]_vars

\* an engine with a full window that was then handed, again, an ID that is in the
\* window but not its newest
C8_Witness ==
    \E e \in 1..Len(engines) :
        /\ Len(engines[e].log) = engines[e].maxRecent + 1
        /\ engines[e].log[Len(engines[e].log)] = engines[e].log[1]
        /\ Len(engines[e].recentlyPlayed) = engines[e].maxRecent

\* every engine's window, by engine
AllWindows == [e \in 1..Len(engines) |-> engines[e].recentlyPlayed]

\* request p takes a step
Steps(p) == pc'[p] # pc[p]

\* request p is a play report inside its transaction
InTx(p) == pc[p] \in {"rp_stats", "rp_event", "rp_commit"}

\* C3: a play report changes in-memory state only after its transaction has
\* committed. A failure of begin, UpdatePlayStatsTx, RecordListenEventTx or commit
\* ends the request with a 500 and leaves the plays counter and every window alone;
\* the counter and the windows change only in steps of committed non-skip reports.
C3_MemoryOnlyAfterCommit ==
    [][\A p \in Procs :
          /\ (Steps(p) /\ (plays' # plays \/ AllWindows' # AllWindows))
                => (loc[p].kind = "report" /\ loc[p].committed /\ loc[p].evtType # "skip")
          /\ (Steps(p) /\ (InTx(p) \/ pc[p] = "rp_begin") /\ ~loc'[p].committed)
                => /\ pc'[p] = "done" \/ InTx(p)'
                   /\ pc'[p] = "done" => loc'[p].status = 500
                   /\ plays' = plays
                   /\ AllWindows' = AllWindows]_vars

\* one report failed inside its transaction and changed nothing in memory, another
\* committed and was counted and recorded
C3_Witness ==
    /\ pc[1] = "done" /\ loc[1].status = 500 /\ loc[1].logged = "Error committing transaction"
    /\ loc[1].evtType = "play" /\ loc[1].track = 1
    /\ pc[2] = "done" /\ loc[2].status = 200 /\ loc[2].evtType = "complete"
    /\ plays = 1
    /\ Len(engines) = 1 /\ engines[1].log = <<1>>

\* C4: the statistic update and the listen-event insert of one report are all or
\* nothing. When RecordListenEventTx fails after UpdatePlayStatsTx succeeded, or the
\* report fails anywhere else in its transaction, the transaction is rolled back
\* and play_stats and listen_events are as they were when the report began it.
C4_FailedReportRollsBack ==
    [][\A p \in Procs :
          (Steps(p) /\ InTx(p) /\ pc'[p] = "done")
          => /\ txOwner' = 0
             /\ playStats' = loc[p].statsAtBegin
             /\ listenEvents' = loc[p].eventsAtBegin]_vars

\* a play report for track 1 whose listen-event insert failed after its statistic
\* update: track 1 has no play_stats row
C4_Witness ==
    \E p \in Procs :
        /\ pc[p] = "done"
        /\ loc[p].logged = "Error recording listen event"
        /\ loc[p].evtType # "skip"
        /\ loc[p].track = 1
        /\ playStats[Catalog[1].file_path] = NoStat
        /\ txStats[Catalog[1].file_path].play_count = 1

\* C5: a skip report changes no play_stats row, no window and not the plays
\* counter; when it commits it has inserted exactly one listen_events row if its
\* mood is known, and none otherwise.
C5_SkipOnlyLogsEvent ==
    [][\A p \in Procs :
          (Steps(p) /\ loc[p].kind = "report" /\ loc[p].evtType = "skip")
          => /\ playStats' = playStats
             /\ plays' = plays
             /\ AllWindows' = AllWindows
             /\ IF pc[p] = "rp_commit" /\ loc'[p].committed /\ loc[p].evtMood # ""
                THEN listenEvents' = Append(listenEvents,
                         [track_id |-> loc[p].trackID, mood |-> loc[p].evtMood,
                          event_type |-> "skip", listen_seconds |-> loc[p].secs])
                ELSE listenEvents' = listenEvents]_vars

\* a skip of track 1 was answered 200 after a play of it: one skip row, the count,
\* the counter and the window are those of the play alone
C5_Witness ==
    \E p \in Procs :
        /\ pc[p] = "done"
        /\ loc[p].status = 200
        /\ loc[p].evtType = "skip"
        /\ loc[p].track = 1
        /\ Cardinality({i \in 1..Len(listenEvents) : listenEvents[i].event_type = "skip"}) = 1
        /\ playStats[Catalog[1].file_path].play_count = 1
        /\ plays = 1
        /\ Len(engines) = 1 /\ engines[1].recentlyPlayed = <<1>>

\* request p is between its catalog read and the end of its shuffle
Shuffling(p) == pc[p] \in {"gp_lock", "gp_recent", "gp_partition"}

\* request p holds its engine's mutex
HoldsMutex(p) == pc[p] \in {"gp_recent", "gp_partition", "rec_body"}

\* C9 as stated: a GetPlaylist call, from its read of the eligible tracks to the
\* end of its shuffle, and a RecordPlay call on the same engine never interleave:
\* no RecordPlay runs on the engine between the read and the shuffle.
C9_NoRecordPlaySinceRead ==
    \A p \in Procs :
        Shuffling(p) => Len(engines[loc[p].radio].log) = loc[p].recordedAtRead

\* C9 as amended: the shuffle proper (recentSet, partition, randomisation) and a
\* RecordPlay on the same engine never interleave: at most one request holds an
\* engine's mutex, and the window a shuffle has read is still the engine's window
\* when it partitions.
C9_ShuffleExcludesRecordPlay ==
    /\ \A p, q \in Procs :
          (p # q /\ HoldsMutex(p) /\ HoldsMutex(q)) => loc[p].radio # loc[q].radio
    /\ \A p \in Procs :
          pc[p] = "gp_partition" => loc[p].recentSet = Range(WindowOf(p))

\* a shuffle holds the mutex while a RecordPlay for a track outside the window it
\* read waits for the same engine
C9_Witness ==
    \E p, q \in Procs :
        /\ pc[p] = "gp_partition"
        /\ pc[q] = "rec_lock"
        /\ loc[q].radio = loc[p].radio
        /\ loc[q].trackID \notin loc[p].recentSet
        /\ loc[q].trackID \in Range(loc[p].tracks)

\* C10: under any interleaving of GetRadio calls at most one engine is ever made
\* per mood: calls for the same mood get the same engine, the one in the map, and
\* calls for different moods get different engines.
C10_OneEnginePerMood ==
    /\ \A m \in ReqMoods : Cardinality({e \in 1..Len(engines) : engines[e].mood = m}) <= 1
    /\ \A p \in Procs :
          loc[p].radio # 0 => /\ radios[loc[p].mood] = loc[p].radio
                              /\ engines[loc[p].radio].mood = loc[p].mood
    /\ \A p, q \in Procs :
          (loc[p].radio # 0 /\ loc[q].radio # 0)
          => (loc[p].radio = loc[q].radio <=> loc[p].mood = loc[q].mood)

\* two calls for one mood both missed under the read lock; one has made the engine
\* and the other is at the double-check under the write lock
C10_Witness ==
    \E p, q \in Procs :
        /\ p # q
        /\ pc[p] = "gr_create"
        /\ loc[q].mood = loc[p].mood
        /\ loc[q].radio # 0
        /\ radios[loc[p].mood] = loc[q].radio
        /\ Len(engines) = 1

\* ------------------------------------------------------------ cache claims
PlaylistKeys == {CacheKeyFor(m, i) : m \in AllMoods, i \in BOOLEAN}

\* C11: when InvalidateMoods returns, a Get for the mood-list key or for a key
\* under the playlist prefix misses, and a Get for any other key answers what it
\* answered before the call: a hit with the same value if the key was set and has
\* not expired.
C11_InvalidateMoodsClearsMoodKeys ==
    [][invalidations' # invalidations =>
         \A k \in CacheKeys :
           IF k = KeyMoodsList \/ k \in PlaylistKeys
           THEN ~GetResult(items'[k], now').found
           ELSE GetResult(items'[k], now') = GetResult(items[k], now)]_vars

\* a Get read a live playlist entry, InvalidateMoods then removed it from the map
\* and left the other key's live entry in place
C11_Witness ==
    /\ invalidations = 1
    /\ sweepNow = -1
    /\ pc[1] = "cg_check"
    /\ loc[1].key \in PlaylistKeys
    /\ GetResult(loc[1].entry, now).found
    /\ ~items[loc[1].key].present
    /\ GetResult(items[OtherKey], now).found

\* C13: Get answers with a value only if the entry it read has not expired at the
\* time of the call; for an absent key or an expired entry it answers
\* (nothing, not found), also while the expired entry is still in the map.
C13_GetNeverReturnsExpired ==
    [][\A p \in Procs :
         pc[p] = "cg_check" /\ pc'[p] # "cg_check" =>
           LET e == loc[p].entry
           IN  /\ loc'[p].hit => e.present /\ now <= e.expiresAt /\ loc'[p].value = e.value
               /\ (~e.present \/ now > e.expiresAt) => ~loc'[p].hit /\ loc'[p].value = <<>>]_vars

\* one Set, then after the entry's lifetime one Get that missed although the sweep
\* has not removed the entry
C13_Witness ==
    /\ started = 2
    /\ pc[1] = "done"
    /\ loc[1].kind = "get"
    /\ ~loc[1].hit
    /\ misses = 1
    /\ items[loc[1].key].present
    /\ now > items[loc[1].key].expiresAt

\* C12: a request answered from the cache never gets a response that was computed
\* from the catalog before an InvalidateMoods call which had returned when the
\* request started.
C12_NoStaleHitAfterInvalidate ==
    \A p \in Procs :
      pc[p] = "done" /\ loc[p].hit => loc[p].servedEpoch >= loc[p].startEpoch

\* C14: no step of a play report, whatever its event kind and whether it ends with
\* 200, 400 or 500, changes the cache's map: no entry is deleted, added or rewritten.
C14_ReportLeavesCacheUnchanged ==
    [][\A p \in Procs :
         (loc[p].kind = "report" \/ loc'[p].kind = "report") /\ pc'[p] # pc[p] =>
           items' = items]_vars

\* a committed play report has run to its answer while the cache holds a playlist
C14_Witness ==
    /\ pc[1] = "done"
    /\ loc[1].kind = "report"
    /\ loc[1].committed
    /\ loc[1].status = 200
    /\ plays = 1
    /\ \E k \in PlaylistKeys : items[k].present

\* ----------------------------------------------------------- report claims
Reports(p) == loc[p].kind = "report"

\* the request's store calls succeeded up to its commit
ReachedCommit(p) == pc[p] = "rp_commit" \/ loc[p].committed

StoreErrors == {"Error starting transaction", "Error recording play",
                "Error recording listen event", "Error committing transaction"}

\* C15: a report whose event kind is not play, skip or complete is answered 400
\* at once: it begins no transaction, writes no statistic and no listen event, and
\* leaves the plays counter and every window as they are.
C15_InvalidKindRejected ==
    /\ [][\A p \in Procs :
            pc[p] = "idle" /\ loc'[p].kind = "report"
              /\ loc'[p].evtType \notin {"play", "skip", "complete"} =>
                /\ loc'[p].status = 400
                /\ pc'[p] = "done"
                /\ UNCHANGED <<playStats, listenEvents, txOwner, txStats, txEvents, plays,
                               engines>>]_vars
    /\ [](\A p \in Procs :
            Reports(p) /\ loc[p].evtType \notin {"play", "skip", "complete"} =>
              pc[p] = "done" /\ loc[p].status = 400 /\ txOwner # p)

\* a report with the event kind pause was answered 400 after an earlier play had
\* been committed and counted
C15_Witness ==
    \E p \in Procs :
      /\ pc[p] = "done"
      /\ Reports(p)
      /\ loc[p].evtType = "pause"
      /\ loc[p].status = 400
      /\ plays = 1
      /\ \E path \in Paths : playStats[path].play_count = 1

\* C16 as stated: a report whose track was not resolved does everything a report
\* for the same track does when it is resolved, the window update aside; since a
\* resolved track always gives the event a mood, its listen event is recorded.
C16_OnlyWindowUpdateSkipped ==
    \A p \in Procs :
      Reports(p) /\ loc[p].committed /\ loc[p].track = 0 /\ loc[p].trackID \in TrackIds =>
        loc[p].eventCalls = 1

\* C16: the lookup never ends the request, whether it fails or finds no track; a
\* report whose track was not resolved fails only through a store call of its
\* transaction, never changes a window, records its listen event exactly when the
\* body named a mood, and on commit of a non-skip event still updates the
\* statistic and the plays counter.
C16_UnresolvedTrackProceeds ==
    /\ [][\A p \in Procs :
            pc[p] = "rp_getbyid" /\ pc'[p] # pc[p] =>
              pc'[p] = "rp_begin" /\ loc'[p].status = 0]_vars
    /\ [][\A p \in Procs :
            Reports(p) /\ loc[p].track = 0 /\ pc[p] # "rp_getbyid" /\ pc'[p] # pc[p] =>
              /\ AllWindows' = AllWindows
              /\ pc[p] = "rp_memory" =>
                   /\ pc'[p] = "done"
                   /\ loc'[p].status = 200
                   /\ plays' = IF loc[p].evtType = "skip" THEN plays ELSE plays + 1]_vars
    /\ [](\A p \in Procs :
            Reports(p) /\ loc[p].track = 0 =>
              /\ loc[p].status = 500 => loc[p].logged \in StoreErrors
              /\ ReachedCommit(p) =>
                   /\ loc[p].eventCalls = IF loc[p].evtMood = "" THEN 0 ELSE 1
                   /\ loc[p].statCalls = IF loc[p].evtType = "skip" THEN 0 ELSE 1)

\* the lookup of an existing track failed; the play was still committed, counted
\* and answered 200, no engine was touched and, the body naming no mood, no listen
\* event was recorded
C16_Witness ==
    \E p \in Procs :
      /\ pc[p] = "done"
      /\ Reports(p)
      /\ loc[p].track = 0
      /\ loc[p].trackID \in TrackIds
      /\ loc[p].evtType = "play"
      /\ loc[p].evtMood = ""
      /\ loc[p].committed
      /\ loc[p].status = 200
      /\ plays = 1
      /\ playStats[Catalog[loc[p].trackID].file_path].play_count = 1
      /\ listenEvents = <<>>
      /\ engines = <<>>

\* C17: UpdatePlayStatsTx for a track ID with no row fails; the report ends with
\* 500 "Error recording play", its transaction is rolled back so that play_stats
\* and listen_events are as they were when it began, and it is never committed.
C17_MissingTrackFailsWrite ==
    /\ [][\A p \in Procs :
            /\ pc[p] = "rp_stats" /\ pc'[p] # pc[p]
            /\ loc[p].trackID \notin TrackIds /\ loc[p].evtType # "skip"
            => /\ pc'[p] = "done"
               /\ loc'[p].status = 500
               /\ loc'[p].logged = "Error recording play"
               /\ txStats = loc[p].statsAtBegin
               /\ playStats' = loc[p].statsAtBegin
               /\ listenEvents' = loc[p].eventsAtBegin
               /\ txOwner' = 0]_vars
    /\ [](\A p \in Procs :
            Reports(p) /\ loc[p].trackID \notin TrackIds /\ loc[p].evtType # "skip" =>
              ~loc[p].committed /\ pc[p] \notin {"rp_event", "rp_commit", "rp_memory"})

\* a complete report for an ID with no track made its one UpdatePlayStatsTx call
\* and was answered 500, after a play of another track had been committed
C17_Witness ==
    \E p \in Procs :
      /\ pc[p] = "done"
      /\ Reports(p)
      /\ loc[p].trackID = MissingId
      /\ loc[p].evtType = "complete"
      /\ loc[p].statCalls = 1
      /\ loc[p].status = 500
      /\ plays = 1
      /\ \E path \in Paths : playStats[path].play_count = 1

\* C18: the commit of a play or complete report raises the play_count of the
\* track's file path by exactly 1 (from no row, read as 0, to 1 on the first play),
\* sets last_played_at to the time of the update and changes no other row; no
\* step ever lowers a play_count, and none is negative.
C18_PlayCountGrowsByOne ==
    /\ [][\A p \in Procs :
            pc[p] = "rp_commit" /\ loc'[p].committed /\ loc[p].evtType # "skip" =>
              LET path == Catalog[loc[p].trackID].file_path
              IN  /\ playStats'[path].play_count = playStats[path].play_count + 1
                  /\ playStats'[path].last_played_at \in 1..now
                  /\ \A other \in Paths \ {path} : playStats'[other] = playStats[other]]_vars
    /\ [][\A path \in Paths : playStats'[path].play_count >= playStats[path].play_count]_vars
    /\ [](\A path \in Paths : playStats[path].play_count >= 0)

\* the same track was played twice: a first play created the row, a second raised it
C18_Witness ==
    /\ \E path \in Paths : playStats[path].play_count = 2
    /\ plays = 2

\* C19: a valid report calls UpdatePlayStatsTx never for skip and RecordListenEventTx
\* never without a mood, and no call twice; a report whose store calls succeed has,
\* when it reaches its commit, called UpdatePlayStatsTx exactly once if its kind is
\* play or complete and RecordListenEventTx exactly once if its mood is known.
C19_StoreCallsPerReport ==
    \A p \in Procs :
      Reports(p) =>
        /\ loc[p].statCalls \in {0, 1}
        /\ loc[p].eventCalls \in {0, 1}
        /\ loc[p].evtType = "skip" => loc[p].statCalls = 0
        /\ loc[p].evtMood = "" => loc[p].eventCalls = 0
        /\ ReachedCommit(p) =>
             /\ loc[p].statCalls = IF loc[p].evtType \in {"play", "complete"} THEN 1 ELSE 0
             /\ loc[p].eventCalls = IF loc[p].evtMood # "" THEN 1 ELSE 0

\* a committed complete report whose body named a mood for a track the lookup did
\* not resolve: both calls were made once
C19_Witness ==
    \E p \in Procs :
      /\ pc[p] = "done"
      /\ Reports(p)
      /\ loc[p].committed
      /\ loc[p].evtType = "complete"
      /\ loc[p].track = 0
      /\ loc[p].evtMood = "calm"
      /\ loc[p].statCalls = 1
      /\ loc[p].eventCalls = 1
      /\ Len(listenEvents) = 1

\* C20: every row of listen_events has listen_seconds >= 0.
C20_ListenSecondsNonNegative ==
    \A i \in 1..Len(listenEvents) : listenEvents[i].listen_seconds >= 0

\* ------------------------------------------------------------- body claims
\* the report carries no JSON: no body, an empty one, or bytes that are not JSON
Bodiless(p) == Reports(p) /\ loc[p].form \in {"absent", "empty", "malformed"}

\* C21: a report whose body is absent, empty or not JSON is taken for a play with
\* zero listened seconds and no mood of its own, whatever the bytes spell out: it
\* is never answered 400 and fails only through a store call; when its store calls
\* succeed its commit raises the track's play_count by 1, the plays counter is
\* raised, and for a resolved track the engine of the track's mood is handed the
\* ID, which is in the window when the report is answered 200.
C21_BodilessReportIsPlay ==
    /\ [][\A p \in Procs :
            pc[p] = "idle" /\ Bodiless(p)' =>
              /\ pc'[p] = "rp_getbyid"
              /\ loc'[p].evtType = "play"
              /\ loc'[p].secs = 0
              /\ loc'[p].evtMood = ""]_vars
    /\ [][\A p \in Procs :
            Bodiless(p) /\ pc'[p] # pc[p] =>
              /\ pc[p] = "rp_commit" /\ loc'[p].committed =>
                   LET path == Catalog[loc[p].trackID].file_path
                   IN  playStats'[path].play_count = playStats[path].play_count + 1
              /\ pc[p] = "rp_memory" =>
                   /\ plays' = plays + 1
                   /\ loc[p].track # 0 => pc'[p] = "gr_rlock" /\ loc'[p].ret = "rec_lock"
              /\ pc[p] = "rec_body" =>
                   /\ loc[p].trackID \in Range(engines'[loc[p].radio].recentlyPlayed)
                   /\ engines[loc[p].radio].mood = Catalog[loc[p].trackID].mood
                   /\ loc'[p].status = 200]_vars
    /\ [](\A p \in Procs :
            Bodiless(p) =>
              /\ loc[p].status # 400
              /\ loc[p].evtType = "play"
              /\ loc[p].secs = 0
              /\ loc[p].status = 500 => loc[p].logged \in StoreErrors
              /\ ReachedCommit(p) => loc[p].statCalls = 1
              /\ pc[p] = "done" /\ loc[p].committed => loc[p].status = 200)

\* a report whose bytes are not JSON but spell out a skip was answered 200: the
\* track's count and the plays counter are 1, the track is in its mood's window,
\* and the listen event is a play of zero seconds
C21_Witness ==
    /\ pc[1] = "done"
    /\ loc[1].form = "malformed"
    /\ loc[1].status = 200
    /\ loc[1].track = 1
    /\ playStats[Catalog[1].file_path].play_count = 1
    /\ plays = 1
    /\ Len(engines) = 1 /\ engines[1].recentlyPlayed = <<1>>
    /\ listenEvents = <<[track_id |-> 1, mood |-> Catalog[1].mood, event_type |-> "play",
                         listen_seconds |-> 0]>>

\* --------------------------------------------------------- endpoint claims
\* the eligible tracks of a mood: approved, and instrumental on request
Eligible(mood, instrumentalOnly) ==
    {id \in TrackIds : /\ Catalog[id].mood = mood
                       /\ Catalog[id].status = "approved"
                       /\ (instrumentalOnly => ~Catalog[id].has_vocals)}

\* C22: for a mood without eligible tracks the engine's GetPlaylist, unless the
\* store query fails, returns the empty list and no error, and the playlist
\* endpoint answers 200 with an empty
\* array (not null, no error logged) and caches nothing.
C22_EmptyMoodAnswersEmptyArray ==
    /\ [][\A p \in Procs :
            (/\ pc[p] = "gp_query" /\ pc'[p] # pc[p]
             /\ Eligible(loc[p].mood, loc[p].inst) = {}
             /\ loc'[p].logged # "failed to query tracks")
            => /\ loc'[p].status = 200
               /\ loc'[p].result = <<>>
               /\ pc'[p] = "h_set"]_vars
    /\ [][\A p \in Procs :
            (pc[p] = "h_set" /\ pc'[p] # pc[p] /\ Eligible(loc[p].mood, loc[p].inst) = {})
            => /\ pc'[p] = "done"
               /\ loc'[p].status = 200
               /\ loc'[p].value = <<>>
               /\ ~loc'[p].isNil
               /\ loc'[p].logged = ""
               /\ items' = items]_vars

\* a playlist request for late_night, a known mood without tracks, was answered
\* 200 with the empty array by the mood's engine
C22_Witness ==
    /\ pc[1] = "done"
    /\ loc[1].kind = "serve"
    /\ loc[1].mood = "late_night"
    /\ loc[1].radio # 0
    /\ engines[loc[1].radio].mood = "late_night"
    /\ loc[1].status = 200
    /\ loc[1].value = <<>>
    /\ ~loc[1].hit

\* C23: a playlist request for a mood name outside validMoods is answered 404 in
\* its first step, before the cache, the registry or the store is touched: the
\* cache's map and counters, the registry and its engines and the tables are as
\* they were, the request never holds a cache key or an engine, and no engine
\* exists for such a name.
C23_UnknownMoodRejectedFirst ==
    /\ [][\A p \in Procs :
            (/\ pc[p] = "idle" /\ pc'[p] # pc[p]
             /\ loc'[p].kind = "serve" /\ loc'[p].mood \notin validMoods)
            => /\ pc'[p] = "done"
               /\ loc'[p].status = 404
               /\ UNCHANGED <<items, hits, misses, radios, engines, mgrWriter, mgrReaders,
                              playStats, listenEvents, txOwner>>]_vars
    /\ [](\A p \in Procs :
            loc[p].kind = "serve" /\ loc[p].mood \notin validMoods =>
              /\ pc[p] = "done"
              /\ loc[p].status = 404
              /\ loc[p].key = <<>>
              /\ loc[p].radio = 0
              /\ ~loc[p].hit)
    /\ [](\A m \in AllMoods \ validMoods :
            /\ radios[m] = 0
            /\ \A e \in 1..Len(engines) : engines[e].mood # m
            /\ \A i \in BOOLEAN : ~items[CacheKeyFor(m, i)].present)

\* a request for the imported mood, which has an approved track, was answered 404
\* after a focus playlist had been served and cached: one engine, one miss
C23_Witness ==
    /\ pc[1] = "done"
    /\ loc[1].kind = "serve"
    /\ loc[1].mood = CustomMood
    /\ loc[1].status = 404
    /\ Eligible(CustomMood, loc[1].inst) # {}
    /\ Len(engines) = 1
    /\ misses = 1
    /\ \E i \in BOOLEAN : items[CacheKeyFor("focus", i)].present

\* the play_stats row of a track, NoStat for a track never played
StatOf(id) == playStats[Catalog[id].file_path]

\* C24: the list the store delivers for (mood, instrumentalOnly) holds exactly
\* the tracks that are approved, of the mood and, on request, without vocals,
\* each once, in ascending play_count and, among equal counts, ascending
\* last_played_at, so that never-played tracks come first; the playlist the
\* engine makes of it holds eligible tracks only.
C24_StoreDeliversEligibleInOrder ==
    /\ [][\A p \in Procs :
            (pc[p] = "gp_query" /\ pc'[p] # pc[p]
               /\ loc'[p].logged # "failed to query tracks")
            => LET ts == IF pc'[p] = "gp_lock" THEN loc'[p].tracks ELSE loc'[p].result
               IN  /\ Range(ts) = Eligible(loc[p].mood, loc[p].inst)
                   /\ Len(ts) = Cardinality(Range(ts))
                   /\ \A i, j \in 1..Len(ts) : i < j =>
                         /\ StatOf(ts[i]).play_count <= StatOf(ts[j]).play_count
                         /\ StatOf(ts[i]).play_count = StatOf(ts[j]).play_count
                              => StatOf(ts[i]).last_played_at <= StatOf(ts[j]).last_played_at
                         /\ StatOf(ts[j]) = NoStat => StatOf(ts[i]) = NoStat]_vars
    /\ [][\A p \in Procs : Shuffles(p) =>
            \A id \in Range(loc'[p].result) :
               /\ Catalog[id].status = "approved"
               /\ Catalog[id].mood = loc[p].mood
               /\ loc[p].inst => ~Catalog[id].has_vocals]_vars

\* the store delivered all focus tracks: a never-played one first, then two with
\* the same count in the order of their last plays, then one played more often
C24_Witness ==
    /\ pc[1] = "gp_lock"
    /\ loc[1].mood = "focus"
    /\ Len(loc[1].tracks) = DefaultMaxRecent + 1
    /\ StatOf(loc[1].tracks[1]) = NoStat
    /\ StatOf(loc[1].tracks[2]).play_count = 1
    /\ StatOf(loc[1].tracks[3]).play_count = 1
    /\ StatOf(loc[1].tracks[2]).last_played_at < StatOf(loc[1].tracks[3]).last_played_at
    /\ StatOf(loc[1].tracks[4]).play_count = 2
    /\ loc[1].tracks[2] > loc[1].tracks[3]

\* ----------------------------------------------------------- shuffle claims
\* the tracks of s that are in the set, in the order of s
Within(s, set) == SelectSeq(s, LAMBDA id : id \in set)

\* C25: the tracks of the window come out of GetPlaylist in the relative order in
\* which the store delivered them; when every delivered track is in the window
\* the playlist is the store's list unchanged; when the window is empty nothing is
\* held back from the shuffle: the playlist is a Fisher-Yates shuffle of the whole
\* list.
C25_RecentKeepStoreOrder ==
    [][\A p \in Procs : Shuffles(p) =>
          LET window == Range(WindowOf(p))
          IN  /\ Within(loc'[p].result, window) = Within(loc[p].tracks, window)
              /\ Range(loc[p].tracks) \subseteq window => loc'[p].result = loc[p].tracks
              /\ WindowOf(p) = <<>> =>
                    \E js \in RngDraws(Len(loc[p].tracks)) :
                       loc'[p].result = FisherYates(loc[p].tracks, Len(loc[p].tracks), js)]_vars

\* the instrumental focus playlist was returned while both of its tracks were in
\* the window, in an order the store chose
C25_Witness ==
    /\ pc[1] = "done"
    /\ loc[1].kind = "playlist"
    /\ loc[1].inst
    /\ Len(loc[1].result) = 2
    /\ Range(loc[1].result) \subseteq Range(engines[loc[1].radio].recentlyPlayed)
    /\ loc[1].result[1] > loc[1].result[2]

\* C26: on an engine with window size 2, when the store delivers <<A, B, C, D>>
\* and the window is <<A, B>>, the playlist is C and D in some order, then A, B;
\* RecordPlay of C, a track outside the window <<A, B>>, makes the window <<B, C>>;
\* with that window the playlist for <<A, B, C, D>> is A and D in some order,
\* then B, C.
C26_WindowOfTwoExample ==
    /\ [][\A p \in Procs :
            (Shuffles(p) /\ engines[loc[p].radio].maxRecent = 2 /\ Len(loc[p].tracks) = 4)
            => LET t == loc[p].tracks
                   r == loc'[p].result
               IN  /\ WindowOf(p) = <<t[1], t[2]>> =>
                         /\ {r[1], r[2]} = {t[3], t[4]}
                         /\ <<r[3], r[4]>> = <<t[1], t[2]>>
                   /\ WindowOf(p) = <<t[2], t[3]>> =>
                         /\ {r[1], r[2]} = {t[1], t[4]}
                         /\ <<r[3], r[4]>> = <<t[2], t[3]>>]_vars
    /\ [][\A p \in Procs :
            (/\ pc[p] = "rec_body" /\ pc'[p] # pc[p]
             /\ engines[loc[p].radio].maxRecent = 2
             /\ Len(WindowOf(p)) = 2
             /\ loc[p].trackID \notin Range(WindowOf(p)))
            => engines'[loc[p].radio].recentlyPlayed = <<WindowOf(p)[2], loc[p].trackID>>]_vars

\* the example has run on an engine of window size 2: plays of 1, 2 and 3 were
\* recorded, the window is <<2, 3>>, and the playlist just returned has 4 and 1
\* ahead of 2 and 3
C26_Witness ==
    /\ pc[1] = "done"
    /\ loc[1].kind = "playlist"
    /\ engines[loc[1].radio].maxRecent = 2
    /\ engines[loc[1].radio].log = <<1, 2, 3>>
    /\ engines[loc[1].radio].recentlyPlayed = <<2, 3>>
    /\ loc[1].result = <<4, 1, 2, 3>>

\* ------------------------------------------------------------- slot claims
\* the value is a playlist for (mood, instrumentalOnly): its eligible tracks,
\* each once
PlaylistFor(value, mood, instrumentalOnly) ==
    /\ Range(value) = Eligible(mood, instrumentalOnly)
    /\ Len(value) = Cardinality(Range(value))

\* C27: the playlist cache has one slot per known mood and flag value, under keys
\* that differ; a playlist request reads and writes the slot of its own mood and
\* flag only, every slot holds a playlist computed for its mood and flag, and so
\* does every answer taken from the cache; InvalidateMoods removes the slots of
\* both flag values of every mood.
C27_SlotPerMoodAndFlag ==
    /\ [](\A m1, m2 \in validMoods, i1, i2 \in BOOLEAN :
            CacheKeyFor(m1, i1) = CacheKeyFor(m2, i2) => m1 = m2 /\ i1 = i2)
    /\ [](\A m \in validMoods, i \in BOOLEAN :
            items[CacheKeyFor(m, i)].present => PlaylistFor(items[CacheKeyFor(m, i)].value, m, i))
    /\ [](\A p \in Procs :
            loc[p].kind = "serve" /\ loc[p].key # <<>> =>
              /\ loc[p].key = CacheKeyFor(loc[p].mood, loc[p].inst)
              /\ pc[p] = "done" /\ loc[p].hit => PlaylistFor(loc[p].value, loc[p].mood, loc[p].inst))
    /\ [][\A p \in Procs :
            loc[p].kind = "serve" /\ pc'[p] # pc[p] =>
              \A k \in CacheKeys \ {loc[p].key} : items'[k] = items[k]]_vars
    /\ [][invalidations' # invalidations =>
            \A m \in validMoods, i \in BOOLEAN : ~items'[CacheKeyFor(m, i)].present]_vars

\* a request for all focus tracks missed and was answered from the engine while
\* the slot of the instrumental focus playlist was filled; both slots are filled
\* now, with different playlists
C27_Witness ==
    /\ pc[1] = "done"
    /\ loc[1].kind = "serve"
    /\ loc[1].mood = "focus"
    /\ ~loc[1].inst
    /\ ~loc[1].hit
    /\ items[CacheKeyFor("focus", TRUE)].present
    /\ items[CacheKeyFor("focus", FALSE)].present
    /\ items[CacheKeyFor("focus", FALSE)].value = loc[1].value
    /\ Len(items[CacheKeyFor("focus", TRUE)].value) < Len(loc[1].value)

\* the moods that have approved tracks in the catalog
CatalogMoods == {Catalog[id].mood : id \in {t \in TrackIds : Catalog[t].status = "approved"}}

\* C28: every mood with approved tracks in the catalog, also one imported under a
\* new name, is in the mood list the store query gives, and a playlist request
\* for it is answered with its playlist unless a store call fails.
C28_NewMoodNeedsNoCodeChange ==
    /\ \A p \in Procs :
          (pc[p] = "done" /\ loc[p].kind = "moods" /\ loc[p].status = 200 /\ ~loc[p].hit)
          => \A m \in CatalogMoods : \E i \in 1..Len(loc[p].value) : loc[p].value[i].mood = m
    /\ \A p \in Procs :
          (pc[p] = "done" /\ loc[p].kind = "serve" /\ loc[p].mood \in CatalogMoods)
          => /\ loc[p].status \in {200, 500}
             /\ loc[p].status = 200 => Range(loc[p].value) = Eligible(loc[p].mood, loc[p].inst)

\* ----------------------------------------------------------- window claims
\* C29: in every reachable state, whatever the interleaving of RecordPlay and
\* GetPlaylist calls, every engine's window holds at most maxRecent track IDs and
\* no ID twice.
C29_WindowBoundedNoDuplicates ==
    \A e \in 1..Len(engines) :
        /\ Len(engines[e].recentlyPlayed) <= engines[e].maxRecent
        /\ \A i, j \in 1..Len(engines[e].recentlyPlayed) :
              engines[e].recentlyPlayed[i] = engines[e].recentlyPlayed[j] => i = j

\* two concurrent RecordPlay calls for different tracks have both returned on an
\* engine with a full window: the first ID was evicted
C29_Witness ==
    \E e \in 1..Len(engines) :
        /\ Len(engines[e].log) > engines[e].maxRecent
        /\ Cardinality(Range(engines[e].log)) = Len(engines[e].log)
        /\ Len(engines[e].recentlyPlayed) = engines[e].maxRecent
        /\ \A p \in Procs : pc[p] = "done" /\ loc[p].kind = "record" /\ loc[p].radio = e

Live(e) == e.present /\ ~Expired(e, now)

\* C31 as stated: no request is answered with a playlist it had the engine make
\* while a live entry is cached under its key.
C31_NoEngineWhileCached ==
    \A p \in Procs :
        loc[p].kind = "serve" /\ pc[p] = "h_set" => ~Live(items[loc[p].key])

\* C31: a playlist request whose Get reads an entry that has not expired when Get
\* tests it is answered with that entry's sequence and never invokes the engine;
\* a live entry is removed only by InvalidateMoods and replaced only by a request
\* for its key that had missed and had the engine make a playlist of its own.
C31_LiveEntryIsServed ==
    /\ [][\A p \in Procs :
            (/\ pc[p] = "cg_check" /\ pc'[p] # pc[p] /\ loc[p].kind = "serve"
             /\ loc[p].entry.present /\ ~Expired(loc[p].entry, now))
            => /\ pc'[p] = "done"
               /\ loc'[p].hit
               /\ loc'[p].value = loc[p].entry.value
               /\ loc'[p].status = 200]_vars
    /\ [](\A p \in Procs :
            loc[p].kind = "serve" /\ loc[p].hit =>
              loc[p].radio = 0 /\ loc[p].result = <<>> /\ pc[p] = "done")
    /\ [][\A k \in CacheKeys :
            (Live(items[k]) /\ items'[k] # items[k]) =>
               \/ invalidations' # invalidations /\ ~items'[k].present
               \/ \E p \in Procs :
                     /\ pc[p] = "h_set" /\ pc'[p] # pc[p]
                     /\ loc[p].key = k /\ ~loc[p].hit /\ loc[p].radio # 0
                     /\ items'[k].value = loc[p].result]_vars

\* one request missed and cached the playlist the engine made for it; the other
\* was answered from the cache with the same sequence without asking the engine
C31_Witness ==
    \E p, q \in Procs :
        /\ pc[p] = "done" /\ ~loc[p].hit /\ loc[p].radio # 0 /\ loc[p].status = 200
        /\ pc[q] = "done" /\ loc[q].hit /\ loc[q].radio = 0
        /\ loc[q].key = loc[p].key
        /\ loc[q].value = loc[p].value
        /\ Len(loc[q].value) = 2
        /\ Live(items[loc[q].key])

\* the requests that have entered Cache.Get and not yet counted
InGet == {p \in Procs : pc[p] \in {"cg_read", "cg_check"}}

\* C32: every Get raises exactly one counter by one, hits when it returns a value
\* and misses otherwise; under any interleaving hits + misses is the number of
\* Get calls that have counted (every request here makes one Get, first), and
\* neither counter ever decreases or changes outside a Get.
C32_OneCounterPerGet ==
    /\ [](hits + misses = started - Cardinality(InGet))
    /\ [][\A p \in Procs :
            pc[p] = "cg_check" /\ pc'[p] # pc[p] =>
              IF loc'[p].hit
              THEN hits' = hits + 1 /\ misses' = misses /\ loc'[p].value = loc[p].entry.value
              ELSE misses' = misses + 1 /\ hits' = hits /\ loc'[p].value = <<>>]_vars
    /\ [][/\ hits' >= hits
          /\ misses' >= misses
          /\ (hits' # hits \/ misses' # misses) =>
                \E p \in Procs : pc[p] = "cg_check" /\ pc'[p] # pc[p]]_vars

\* two Gets have counted, the first a miss and the second a hit on the entry the
\* first request stored; both requests are answered
C32_Witness ==
    /\ hits = 1
    /\ misses = 1
    /\ InGet = {}
    /\ \E p, q \in Procs :
          /\ pc[p] = "done" /\ loc[p].hit
          /\ pc[q] = "done" /\ ~loc[q].hit /\ loc[q].status = 200

\* --------------------------------------------------------- playback claims
\* playbacks the client has started: each sends a play report, then a complete
PlaybacksStarted == (started + 1) \div 2

\* C33: play_count is the number of plays of the track: each playback, reported
\* as play at its start and complete at its end, raises the track's play_count
\* and the plays counter by 1, so neither exceeds the number of playbacks.
C33_OneCountPerPlayback ==
    /\ playStats[Catalog[ClientTrack].file_path].play_count <= PlaybacksStarted
    /\ plays <= PlaybacksStarted

\* the part of a resolved URL after the base path and its slash
UrlPath(url) == SubSeq(url, Len(BasePath) + 2, Len(url))

\* C34: every URL the local resolver returns is the base path, a slash, and a
\* path none of whose elements is the parent directory "..", whatever file path
\* it was given
C34_NoParentSegment ==
    \A p \in Procs :
        pc[p] = "done" /\ loc[p].kind = "resolve" =>
            /\ StringHasPrefix(loc[p].url, BasePath \o <<"/">>)
            /\ \A i \in 1..Len(Elements(UrlPath(loc[p].url))) :
                   Elements(UrlPath(loc[p].url))[i] # DotDot

\* the registry lock and engine mutexes request p holds
LocksHeld(p) ==
    (IF mgrWriter = p THEN 1 ELSE 0) + (IF p \in mgrReaders THEN 1 ELSE 0)
    + Cardinality({e \in 1..Len(engines) : engines[e].mu = p})

\* the steps that take the cache's lock: Get's read, Set
AtCache(p) == pc[p] \in {"cg_read", "h_set", "lm_set"}

InFlight == {p \in Procs : pc[p] \notin {"idle", "done"}}

\* C35: a request holds at most one of the registry lock and the engine mutexes,
\* holds neither when it takes the cache's lock, holds none once it has its
\* answer, and a request holding a lock can always take its next step; so whenever
\* requests are in flight one of them can step
C35_OneLockAtATime ==
    /\ \A p \in Procs :
         /\ LocksHeld(p) <= 1
         /\ AtCache(p) => LocksHeld(p) = 0
         /\ pc[p] \in {"idle", "done"} => LocksHeld(p) = 0
         /\ LocksHeld(p) = 1 => ENABLED Step(p)
    /\ InFlight # {} => \E p \in InFlight : ENABLED Step(p)

\* one request holds the focus engine's mutex while the other waits for it
C35_Witness ==
    /\ pc[1] = "gp_recent" /\ engines[loc[1].radio].mu = 1
    /\ pc[2] = "rec_lock" /\ loc[2].radio = loc[1].radio
    /\ ~ENABLED Step(2)

\* the steps that ask the pool for a connection outside a transaction
NeedsConn == {"rp_getbyid", "rp_begin", "gp_query", "lm_query"}

\* C36: the connection is held by a report exactly between its BeginTx and its
\* commit or rollback, a report makes no store call outside its transaction
\* while it is open; an open transaction is always ended, and a request that
\* waits for the connection gets it
C36_TransactionEnds ==
    /\ [](\A p \in Procs : (txOwner = p) <=> InTx(p))
    /\ \A p \in Procs : (txOwner = p) ~> (txOwner # p)
    /\ \A p \in Procs : (pc[p] \in NeedsConn) ~> (pc[p] \notin NeedsConn)

\* a report holds its transaction open while another request waits for the
\* connection
C36_Witness ==
    /\ txOwner = 1 /\ pc[1] = "rp_event"
    /\ pc[2] \in NeedsConn

\* the track IDs held in some engine's recency window
InSomeWindow == UNION {Range(engines[e].recentlyPlayed) : e \in 1..Len(engines)}

\* C37: every track ID in a recency window is a catalog track whose durable
\* play_count is at least 1
C37_WindowBehindStats ==
    \A id \in InSomeWindow :
        /\ id \in TrackIds
        /\ playStats[Catalog[id].file_path].play_count >= 1

\* a track is in a window after one report for it was committed and another was
\* rolled back
C37_Witness ==
    /\ InSomeWindow # {}
    /\ \E p \in Procs : pc[p] = "done" /\ loc[p].status = 500 /\ loc[p].statCalls = 1
    /\ \A id \in InSomeWindow : playStats[Catalog[id].file_path].play_count = 1

\* the step by which report p records its play in an engine's window
RecordsPlay(p) == pc[p] = "rec_body" /\ pc'[p] # "rec_body"

\* C38: a report records its play in the window of the engine registered under
\* the catalog mood of its track and in no other, whatever mood its body named;
\* no engine exists for a mood that only a body named
C38_WindowOfCatalogMood ==
    /\ [][\A p \in Procs :
            RecordsPlay(p) =>
              /\ loc[p].committed /\ loc[p].evtType # "skip" /\ loc[p].track = loc[p].trackID
              /\ loc[p].radio = radios[Catalog[loc[p].trackID].mood]
              /\ engines[loc[p].radio].mood = Catalog[loc[p].trackID].mood
              /\ \A e \in 1..Len(engines) :
                     e # loc[p].radio => engines'[e] = engines[e]]_vars
    /\ [](\A e \in 1..Len(engines) :
             \E id \in ReportTrackIds \cap TrackIds : engines[e].mood = Catalog[id].mood)

\* a report for a focus track whose body named calm was committed with that mood
\* in its listen event and recorded in the focus engine's window
C38_Witness ==
    \E p \in Procs :
        /\ pc[p] = "done" /\ loc[p].status = 200 /\ loc[p].committed
        /\ loc[p].trackID \in TrackIds /\ loc[p].radio # 0
        /\ loc[p].evtMood = "calm" /\ Catalog[loc[p].trackID].mood = "focus"
        /\ engines[loc[p].radio].mood = "focus"
        /\ loc[p].trackID \in Range(engines[loc[p].radio].recentlyPlayed)
        /\ \E i \in 1..Len(listenEvents) :
               listenEvents[i].track_id = loc[p].trackID /\ listenEvents[i].mood = "calm"

\* C39: the listen event a report adds carries the track ID of the request path,
\* the statistic a report updates is the one of the path's track, and nothing is
\* ever stored for a track that only a body named
C39_PathTrackWritten ==
    /\ [][\A p \in Procs :
            pc[p] = "rp_event" /\ Len(txEvents') = Len(txEvents) + 1 =>
                txEvents'[Len(txEvents')].track_id = loc[p].trackID]_vars
    /\ [][\A p \in Procs :
            pc[p] = "rp_stats" =>
                \A path \in Paths :
                    txStats'[path] # txStats[path] =>
                        /\ loc[p].trackID \in TrackIds
                        /\ path = Catalog[loc[p].trackID].file_path]_vars
    /\ [](\A i \in 1..Len(listenEvents) : listenEvents[i].track_id \in ReportTrackIds)
    /\ [](\A id \in TrackIds \ ReportTrackIds : playStats[Catalog[id].file_path] = NoStat)

\* a report on the path of track 1 whose body carried another track_id was
\* committed: its listen event and its statistic are those of track 1
C39_Witness ==
    /\ pc[1] = "done" /\ loc[1].status = 200 /\ loc[1].form = "object"
    /\ loc[1].trackID = 1 /\ loc[1].evtTrackID = 1 /\ loc[1].bodyTrackID = 2
    /\ started = 1
    /\ Len(listenEvents) = 1 /\ listenEvents[1].track_id = 1 /\ listenEvents[1].mood = "focus"
    /\ playStats[Catalog[1].file_path].play_count = 1
    /\ playStats[Catalog[2].file_path] = NoStat

\* C40: a playlist entry of the cache never holds an empty list; the handler's
\* Set step stores only a non-empty list it got from the engine, and a request
\* whose engine call failed leaves the cache as it is; so a request for a known
\* mood without eligible tracks is never answered from the cache and always
\* reaches the engine
C40_OnlyNonEmptyCached ==
    /\ [](\A k \in PlaylistKeys : items[k].present => Len(items[k].value) > 0)
    /\ [][\A p \in Procs :
            /\ pc[p] = "h_set" /\ pc'[p] = "done" /\ items' # items =>
                   /\ Len(loc[p].result) > 0
                   /\ loc[p].logged = ""
                   /\ \A k \in CacheKeys : items'[k] # items[k] => k = loc[p].key
            /\ pc[p] = "gp_query" /\ pc'[p] = "done" => items' = items]_vars
    /\ [](\A p \in Procs :
             /\ pc[p] = "done" /\ loc[p].kind = "serve" /\ loc[p].status # 404
             /\ Eligible(loc[p].mood, loc[p].inst) = {}
             => ~loc[p].hit /\ loc[p].radio # 0)

\* the second request for a mood without tracks misses the cache like the first
\* and is answered by the engine with the empty list
C40_Witness ==
    /\ started = 2 /\ misses = 2 /\ hits = 0
    /\ pc[1] = "done" /\ loc[1].kind = "serve" /\ loc[1].mood = "late_night"
    /\ loc[1].status = 200 /\ loc[1].radio # 0 /\ loc[1].value = <<>>
    /\ \A k \in PlaylistKeys : ~items[k].present

====
